---- MODULE Spec2Model ----
(***************************************************************************)
(* ClearLease: the rule-driven classification and explanation pipeline.    *)
(*                                                                         *)
(* Every stage of the pipeline is a synchronous pure function of its typed *)
(* input.  Each stage is modelled as an operator computed the way the code *)
(* computes it, and is exercised by a specification of its own: Init draws *)
(* the stage's input from a bounded set, the stage's action applies the    *)
(* operation and stores the result.                                        *)
(*                                                                         *)
(* Text is kept as text: lower() and the substring test work on the        *)
(* characters.  CJK characters of the source cannot be written in a TLA+   *)
(* string; each is written as its pinyin syllable between angle brackets   *)
(* (one token per character, so substring relations between the phrases    *)
(* are kept, and lower() leaves them alone as str.lower() does).           *)
(*                                                                         *)
(* An Optional[...] argument is a sequence of length 0 (None) or 1.        *)
(***************************************************************************)
EXTENDS Integers, Sequences, FiniteSets, TLC

VARIABLES
    pc,                 \* position of the stage under check
    extracted_signals,  \* AnalysisInput.extracted_signals
    analysis_output,    \* AnalysisOutput returned by AnalysisService.analyze
    risk_signals,       \* TrapEngineV2.risk_signals
    traps,              \* list returned by TrapEngineV2.detect_traps
    explain_v0_output,  \* ExplainGateway.aggregate argument (Optional)
    explain_v1_output,  \* ExplainGateway.aggregate argument (Optional)
    explain_v2_output,  \* ExplainGateway.aggregate argument (Optional)
    gateway_output,     \* GatewayOutput returned by ExplainGateway.aggregate
    explain_inputs,     \* two AnalysisOutputs handed to ExplainService.explain
    explain_outputs,    \* the two ExplanationOutputs returned for them
    chains,             \* list returned by RiskChainBuilder.build_chains
    input_data,         \* ExplainV2Input handed to ExplainV2Service.explain
    explain_v2_result,  \* what ExplainV2Service.explain did: raised or returned
    build_risk_items,   \* RiskBuilderV1.build argument risk_items
    build_signals,      \* RiskBuilderV1.build argument signals
    risk_fields,        \* list returned by RiskBuilderV1.build
    contract_text,      \* raw text handed to IngestionService.ingest
    ingestion_result,   \* what IngestionService.ingest did: raised or returned
    rules_data,         \* content of the rules file ExtractionService is built on
    extraction_service, \* what ExtractionService(rules_path) did: raised or built
    extraction_candidates \* list returned by ExtractionService.extract

vars == <<pc, extracted_signals, analysis_output, risk_signals, traps,
          explain_v0_output, explain_v1_output, explain_v2_output,
          gateway_output, explain_inputs, explain_outputs,
          chains, input_data, explain_v2_result,
          build_risk_items, build_signals, risk_fields,
          contract_text, ingestion_result, rules_data, extraction_service,
          extraction_candidates>>

---------------------------------------------------------------------------
(* Bounds of the model *)

MaxSignals == 3

MaxRiskSignals == 3

MaxBlocks == 3

MaxExplanations == 3

MaxRiskItems == 2

MaxChainSignals == 2

MaxBuildSignals == 2

MaxBuildItems == 2

---------------------------------------------------------------------------
(* Text: str.lower() and the `in` substring test *)

UpperLetters == "ABCDEFGHIJKLMNOPQRSTUVWXYZ"

LowerLetters == "abcdefghijklmnopqrstuvwxyz"

\* the lower-case letter of each upper-case letter
ToLower ==
    [c \in {SubSeq(UpperLetters, i, i) : i \in 1..Len(UpperLetters)} |->
        LET i == CHOOSE j \in 1..Len(UpperLetters) : SubSeq(UpperLetters, j, j) = c
        IN  SubSeq(LowerLetters, i, i)]

LowerChar(c) == IF c \in DOMAIN ToLower THEN ToLower[c] ELSE c

RECURSIVE lower(_)
lower(s) ==
    IF Len(s) = 0 THEN ""
    ELSE LowerChar(SubSeq(s, 1, 1)) \o lower(SubSeq(s, 2, Len(s)))

\* keyword in text
Contains(keyword, text) ==
    \E i \in 1..(Len(text) - Len(keyword) + 1) :
        SubSeq(text, i, i + Len(keyword) - 1) = keyword

SeqToSet(s) == {s[i] : i \in 1..Len(s)}

\* a set of positions as the list of these positions in increasing order
RECURSIVE InOrder(_)
InOrder(positions) ==
    IF positions = {} THEN <<>>
    ELSE LET first == CHOOSE p \in positions : \A q \in positions : p <= q
         IN  <<first>> \o InOrder(positions \ {first})

Levels == {"low", "medium", "high"}

LevelRank(l) == CASE l = "high" -> 3 [] l = "medium" -> 2 [] OTHER -> 1

---------------------------------------------------------------------------
(* Analysis v0: AnalysisService *)

\* The risk-mapping table loaded by _load_rules (rule_id -> risk information).
\* Its entries are the ones the unit tests of the repository rely on.
risk_mappings ==
    [r \in {"phrase_001", "keyword_001", "structural_002", "phrase_003", "keyword_007"} |->
        CASE r = "phrase_001" ->
                [risk_code |-> "AUTO_RENEWAL", severity |-> "medium",
                 description |-> "Automatic renewal clause"]
          [] r = "keyword_001" ->
                [risk_code |-> "AUTO_RENEWAL", severity |-> "medium",
                 description |-> "Lease renewal terms"]
          [] r = "structural_002" ->
                [risk_code |-> "UNILATERAL_CHANGE", severity |-> "high",
                 description |-> "Unilateral change of terms"]
          [] r = "phrase_003" ->
                [risk_code |-> "LIMITED_NOTICE", severity |-> "high",
                 description |-> "Limited notice period"]
          [] r = "keyword_007" ->
                [risk_code |-> "LIABILITY_LIMITATION", severity |-> "medium",
                 description |-> "Limitation of liability"]]

\* ExtractedSignal records the analysis layer is fed with.
ExtractedSignal(rule_id, type, hit_text, block_id) ==
    [rule_id |-> rule_id, type |-> type, hit_text |-> hit_text, block_id |-> block_id]

SignalPool ==
    { ExtractedSignal("phrase_001", "phrase", "Automatic Renewal", "block_0"),
      ExtractedSignal("keyword_001", "keyword", "lease", "block_1"),
      ExtractedSignal("structural_002", "structural", "unilateral change", "block_0"),
      ExtractedSignal("phrase_003", "phrase", "limited notice", "block_2"),
      ExtractedSignal("keyword_007", "keyword", "shall not be responsible for repair", "block_1"),
      ExtractedSignal("unknown_rule", "keyword", "Tenant is responsible for maintenance", "block_2") }

RECURSIVE SeqsUpTo(_, _)
SeqsUpTo(S, n) ==
    IF n = 0 THEN {<<>>}
    ELSE LET shorter == SeqsUpTo(S, n - 1)
         IN  shorter \cup {Append(s, x) : s \in shorter, x \in S}

\* mutant: a rule_id the table does not list is kept as evidence of a risk code
\* of its own
AddEvidence_UnknownKept(risk_evidence, rule_id) ==
    LET mapping == IF rule_id \in DOMAIN risk_mappings THEN risk_mappings[rule_id]
                   ELSE [risk_code |-> "UNKNOWN", severity |-> "low", description |-> ""]
        at == {i \in 1..Len(risk_evidence) :
                   risk_evidence[i].risk_code = mapping.risk_code}
    IN  IF at = {}
        THEN Append(risk_evidence,
                    [risk_code |-> mapping.risk_code,
                     rule_ids |-> <<rule_id>>,
                     description |-> mapping.description])
        ELSE [i \in 1..Len(risk_evidence) |->
                IF i \in at
                THEN [risk_evidence[i] EXCEPT
                        !.rule_ids = Append(@, rule_id),
                        !.description = mapping.description]
                ELSE risk_evidence[i]]

\* analyze, lines 113-129: the evidence aggregated per risk_code, in the order
\* the risk codes are first met (a dict keeps insertion order).
AddEvidence(risk_evidence, rule_id) ==
    IF rule_id \notin DOMAIN risk_mappings THEN risk_evidence
    ELSE LET mapping == risk_mappings[rule_id]
             at == {i \in 1..Len(risk_evidence) :
                        risk_evidence[i].risk_code = mapping.risk_code}
         IN  IF at = {}
             THEN Append(risk_evidence,
                         [risk_code |-> mapping.risk_code,
                          rule_ids |-> <<rule_id>>,
                          description |-> mapping.description])
             ELSE [i \in 1..Len(risk_evidence) |->
                     IF i \in at
                     THEN [risk_evidence[i] EXCEPT
                             !.rule_ids = Append(@, rule_id),
                             !.description = mapping.description]
                     ELSE risk_evidence[i]]

RECURSIVE AggregateEvidence(_, _)
AggregateEvidence(signals, risk_evidence) ==
    IF signals = <<>> THEN risk_evidence
    ELSE AggregateEvidence(Tail(signals), AddEvidence(risk_evidence, Head(signals).rule_id))

\* analyze, lines 135-145: the severity given to the RiskItem of one risk code.
ItemSeverity(evidence) == "low"

\* analyze, lines 148-152: the risk_level of the summary.
SummaryRiskLevel(risk_items) == "low"

\* _calculate_overall_risk_level (defined, never called by analyze)
_calculate_overall_risk_level(severities) ==
    IF severities = <<>> THEN "low"
    ELSE IF "high" \in SeqToSet(severities) THEN "high"
    ELSE IF "medium" \in SeqToSet(severities) THEN "medium"
    ELSE "low"

BuildRiskItems(risk_evidence) ==
    LET HasEvidence(e) == e.rule_ids # <<>>
        kept == SelectSeq(risk_evidence, HasEvidence)
    IN  [i \in 1..Len(kept) |->
            [risk_code |-> kept[i].risk_code,
             severity |-> ItemSeverity(kept[i]),
             evidence_rules |-> kept[i].rule_ids,
             description |-> kept[i].description]]

---------------------------------------------------------------------------
(* Structural risk fields v1: RiskBuilderV1 *)

AnyKeywordIn(keywords, hit_text_lower) ==
    \E k \in keywords : Contains(k, hit_text_lower)

responsibility_keywords ==
    {"responsible for", "maintenance", "repair", "hvac", "plumbing", "electrical"}

liability_keywords ==
    {"not liable", "not be held liable", "not be responsible", "disclaimer", "as-is", "as is"}

temporal_keywords ==
    {"automatically renew", "automatic renewal", "auto renew", "shall automatically renew"}

temporal_block_keywords ==
    temporal_keywords \cup {"early termination", "penalty"}

RiskCodes(risk_items) == {risk_items[i].risk_code : i \in 1..Len(risk_items)}

\* mutant: the negation guard knows only one of its two phrases
_has_responsibility_transfer_OneNegation(signals, risk_items) ==
    \E i \in 1..Len(signals) :
        LET hit_text_lower == lower(signals[i].hit_text)
        IN  /\ ~ Contains("not be responsible for", hit_text_lower)
            /\ AnyKeywordIn(responsibility_keywords, hit_text_lower)

_has_responsibility_transfer(signals, risk_items) ==
    \E i \in 1..Len(signals) :
        LET hit_text_lower == lower(signals[i].hit_text)
        IN  /\ ~ (Contains("not be responsible for", hit_text_lower)
                  \/ Contains("not responsible for", hit_text_lower))
            /\ AnyKeywordIn(responsibility_keywords, hit_text_lower)

\* mutant: the risk-code trigger is missing, only the text is looked at
_has_liability_risk_TextOnly(signals, risk_items) ==
    \E i \in 1..Len(signals) :
        LET hit_text_lower == lower(signals[i].hit_text)
        IN  Contains("not be liable", hit_text_lower)
            \/ Contains("not be responsible for", hit_text_lower)

_has_liability_risk(signals, risk_items) ==
    \/ "LIABILITY_LIMITATION" \in RiskCodes(risk_items)
    \/ \E i \in 1..Len(signals) :
        LET hit_text_lower == lower(signals[i].hit_text)
        IN  Contains("not be liable", hit_text_lower)
            \/ Contains("not be responsible for", hit_text_lower)

\* mutant: the trigger scans for the keyword list of the source-block lookup
_has_temporal_risk_BlockKeywords(signals, risk_items) ==
    \/ "EARLY_TERMINATION_PENALTY" \in RiskCodes(risk_items)
    \/ \E i \in 1..Len(signals) :
        AnyKeywordIn(temporal_block_keywords, lower(signals[i].hit_text))

\* mutant: the AUTO_RENEWAL risk code fires the axis as well
_has_temporal_risk_AutoRenewalCode(signals, risk_items) ==
    \/ "EARLY_TERMINATION_PENALTY" \in RiskCodes(risk_items)
    \/ "AUTO_RENEWAL" \in RiskCodes(risk_items)
    \/ \E i \in 1..Len(signals) :
        AnyKeywordIn(temporal_keywords, lower(signals[i].hit_text))

_has_temporal_risk(signals, risk_items) ==
    \/ "EARLY_TERMINATION_PENALTY" \in RiskCodes(risk_items)
    \/ \E i \in 1..Len(signals) :
        AnyKeywordIn(temporal_keywords, lower(signals[i].hit_text))

\* _get_source_blocks_for_<axis>: list(set(...)), an unordered collection
SourceBlocks(signals, keywords) ==
    {signals[i].block_id : i \in {j \in 1..Len(signals) :
        AnyKeywordIn(keywords, lower(signals[j].hit_text))}}

RiskField(axis, intensity, compounding, description, source_blocks) ==
    [axis |-> axis, affected_party |-> "tenant", intensity |-> intensity,
     compounding |-> compounding, description |-> description,
     source_blocks |-> source_blocks]

\* mutant: one liability field per trigger path (risk code, matched text)
build_LiabilityPerTrigger(risk_items, signals) ==
    LET liability == RiskField("liability", "high", TRUE,
                        "<fang><dong><she><zhi><mian><ze><tiao><kuan>,<xian><zhi><qi><ze><ren>.",
                        SourceBlocks(signals, liability_keywords))
    IN  (IF _has_responsibility_transfer(signals, risk_items)
         THEN <<RiskField("responsibility", "high", TRUE,
                          "<fang><dong><jiang><wei><hu><ze><ren><zhuan><jia><gei><zu><ke>.",
                          SourceBlocks(signals, responsibility_keywords))>>
         ELSE <<>>)
        \o (IF "LIABILITY_LIMITATION" \in RiskCodes(risk_items) THEN <<liability>> ELSE <<>>)
        \o (IF _has_liability_risk(signals, <<>>) THEN <<liability>> ELSE <<>>)
        \o (IF _has_temporal_risk(signals, risk_items)
            THEN <<RiskField("temporal", "medium", FALSE,
                             "<he><tong><bao><han><zi><dong><xu><yue><huo><ti><qian><jie><yue><cheng><fa><tiao><kuan>.",
                             SourceBlocks(signals, temporal_block_keywords))>>
            ELSE <<>>)

build(risk_items, signals) ==
    (IF _has_responsibility_transfer(signals, risk_items)
     THEN <<RiskField("responsibility", "high", TRUE,
                      "<fang><dong><jiang><wei><hu><ze><ren><zhuan><jia><gei><zu><ke>.",
                      SourceBlocks(signals, responsibility_keywords))>>
     ELSE <<>>)
    \o
    (IF _has_liability_risk(signals, risk_items)
     THEN <<RiskField("liability", "high", TRUE,
                      "<fang><dong><she><zhi><mian><ze><tiao><kuan>,<xian><zhi><qi><ze><ren>.",
                      SourceBlocks(signals, liability_keywords))>>
     ELSE <<>>)
    \o
    (IF _has_temporal_risk(signals, risk_items)
     THEN <<RiskField("temporal", "medium", FALSE,
                      "<he><tong><bao><han><zi><dong><xu><yue><huo><ti><qian><jie><yue><cheng><fa><tiao><kuan>.",
                      SourceBlocks(signals, temporal_block_keywords))>>
     ELSE <<>>)

\* AnalysisService.analyze
analyze(signals) ==
    LET risk_evidence == AggregateEvidence(signals, <<>>)
        risk_items == BuildRiskItems(risk_evidence)
        risk_flags == [i \in 1..Len(risk_items) |-> risk_items[i].risk_code]
    IN  [analysis_summary |->
            [risk_level |-> SummaryRiskLevel(risk_items),
             risk_flags |-> risk_flags,
             confidence |-> 1],
         risk_items |-> risk_items,
         risk_fields |-> build(risk_items, signals)]

NoAnalysisOutput ==
    [analysis_summary |-> [risk_level |-> "low", risk_flags |-> <<>>, confidence |-> 1],
     risk_items |-> <<>>, risk_fields |-> <<>>]

---------------------------------------------------------------------------
(* Trap engine v2: TrapEngineV2 *)

temporal_signals == {"AUTO_RENEWAL", "SHORT_NOTICE_WINDOW", "USER_ACTION_REQUIRED"}

asymmetric_signals == {"UNILATERAL_MODIFICATION", "SILENT_ACCEPTANCE", "FINAL_INTERPRETATION_RIGHT"}

exit_barrier_signals == {"HIGH_TERMINATION_FEE", "PENALTY_ESCALATION", "EXIT_CONDITION_RESTRICTION"}

interpretation_signals == {"AMBIGUOUS_TERM", "SUBJECTIVE_CRITERIA", "FINAL_INTERPRETATION_RIGHT"}

\* The categorical signal types fed to the engine: the ten defining types and
\* one type that belongs to no detector.
RiskSignalTypes ==
    temporal_signals \cup asymmetric_signals \cup exit_barrier_signals
        \cup interpretation_signals \cup {"PAYMENT_TERMS"}

RiskSignal(type) == [type |-> type, confidence |-> "medium"]

\* uuid4().hex[:8]: a random identifier, not guaranteed distinct from another
TrapIds == {"trap_1a2b3c4d", "trap_9f8e7d6c"}

\* the `for signal in self.risk_signals` loop of one detector
MatchedSignals(signals, defining) ==
    LET InSet(signal) == signal.type \in defining
    IN  SelectSeq(signals, InSet)

\* mutant: the escalation threshold off by one
TrapSeverity_OffByOne(matched_signals, single) ==
    IF Len(matched_signals) > 2 THEN "high" ELSE single

\* the severity chosen by one detector from its matched signals
TrapSeverity(matched_signals, single) ==
    IF Len(matched_signals) >= 2 THEN "high" ELSE single

\* mutant: a shared signal is consumed by the first detector that matches it,
\* so the interpretation detector never sees FINAL_INTERPRETATION_RIGHT
DetectTrap_Partitioned(signals, defining, trap_type, single, trap_id) ==
    LET own == IF trap_type = "interpretation_ambiguity"
               THEN defining \ {"FINAL_INTERPRETATION_RIGHT"} ELSE defining
        InSet(signal) == signal.type \in own
        matched_signals == SelectSeq(signals, InSet)
    IN  IF matched_signals # <<>>
        THEN <<[trap_id |-> trap_id, trap_type |-> trap_type,
                related_signals |-> matched_signals,
                severity |-> IF Len(matched_signals) >= 2 THEN "high" ELSE single]>>
        ELSE <<>>

\* one detector block of detect_traps: the traps it appends (none or one)
DetectTrap(signals, defining, trap_type, single, trap_id) ==
    LET matched_signals == MatchedSignals(signals, defining)
    IN  IF matched_signals # <<>>
        THEN <<[trap_id |-> trap_id, trap_type |-> trap_type,
                related_signals |-> matched_signals,
                severity |-> TrapSeverity(matched_signals, single)]>>
        ELSE <<>>

\* TrapEngineV2.detect_traps; ids[k] is the uuid drawn by the k-th detector
detect_traps(signals, ids) ==
    DetectTrap(signals, temporal_signals, "temporal_lock", "low", ids[1])
    \o DetectTrap(signals, asymmetric_signals, "asymmetric_power", "medium", ids[2])
    \o DetectTrap(signals, exit_barrier_signals, "exit_barrier", "medium", ids[3])
    \o DetectTrap(signals, interpretation_signals, "interpretation_ambiguity", "medium", ids[4])

---------------------------------------------------------------------------
(* Aggregation gateway: ExplainGateway *)

Present(optional) == optional # <<>>

\* the level chosen from a list of intensities or severities (lines 132-135,
\* 139-142): "high" if listed, else "medium" if listed, else the initial "low"
HighestListed(levels) ==
    IF "high" \in SeqToSet(levels) THEN "high"
    ELSE IF "medium" \in SeqToSet(levels) THEN "medium"
    ELSE "low"

\* mutant: the highest level found in any supplied tier
attention_level_HighestOfAll(v0, v1, v2) ==
    HighestListed(
        (IF Present(v2) THEN <<v2[1].confidence_level>> ELSE <<>>)
        \o (IF Present(v1)
            THEN [i \in 1..Len(v1[1].risk_field_explanations) |->
                    v1[1].risk_field_explanations[i].intensity]
            ELSE <<>>)
        \o (IF Present(v0)
            THEN [i \in 1..Len(v0[1].explanation_blocks) |->
                    v0[1].explanation_blocks[i].severity]
            ELSE <<>>))

\* mutant: the v0 severities are consulted before the v1 intensities
attention_level_V0BeforeV1(v0, v1, v2) ==
    IF Present(v2) THEN v2[1].confidence_level
    ELSE IF Present(v0) /\ v0[1].explanation_blocks # <<>>
    THEN HighestListed([i \in 1..Len(v0[1].explanation_blocks) |->
                            v0[1].explanation_blocks[i].severity])
    ELSE IF Present(v1) /\ v1[1].risk_field_explanations # <<>>
    THEN HighestListed([i \in 1..Len(v1[1].risk_field_explanations) |->
                            v1[1].risk_field_explanations[i].intensity])
    ELSE "low"

\* _build_overview, lines 124-142
attention_level(v0, v1, v2) ==
    IF Present(v2) THEN v2[1].confidence_level
    ELSE IF Present(v1) /\ v1[1].risk_field_explanations # <<>>
    THEN HighestListed([i \in 1..Len(v1[1].risk_field_explanations) |->
                            v1[1].risk_field_explanations[i].intensity])
    ELSE IF Present(v0) /\ v0[1].explanation_blocks # <<>>
    THEN HighestListed([i \in 1..Len(v0[1].explanation_blocks) |->
                            v0[1].explanation_blocks[i].severity])
    ELSE "low"

\* mutant: a supplied v1 ends the fallback chain even when it has no explanation
summary_V1StopsFallback(v0, v1, v2) ==
    IF Present(v2) THEN v2[1].headline
    ELSE IF Present(v1)
    THEN (IF v1[1].risk_field_explanations # <<>>
          THEN v1[1].risk_field_explanations[1].title ELSE "")
    ELSE IF Present(v0) THEN v0[1].overall_message
    ELSE ""

\* _build_overview, lines 144-152
summary(v0, v1, v2) ==
    IF Present(v2) THEN v2[1].headline
    ELSE IF Present(v1) /\ v1[1].risk_field_explanations # <<>>
    THEN v1[1].risk_field_explanations[1].title
    ELSE IF Present(v0) THEN v0[1].overall_message
    ELSE ""

\* mutant: the overview also holds one entry per supplied tier
_build_overview_TierKeyed(v0, v1, v2) ==
    [attention_level |-> attention_level(v0, v1, v2),
     summary |-> summary(v0, v1, v2)]
    @@ [k \in (IF Present(v0) THEN {"v0"} ELSE {}) |->
            [overall_message |-> v0[1].overall_message]]
    @@ [k \in (IF Present(v1) THEN {"v1"} ELSE {}) |->
            [count |-> Len(v1[1].risk_field_explanations)]]
    @@ [k \in (IF Present(v2) THEN {"v2"} ELSE {}) |->
            [headline |-> v2[1].headline]]

_build_overview(v0, v1, v2) ==
    [attention_level |-> attention_level(v0, v1, v2),
     summary |-> summary(v0, v1, v2)]

Min(a, b) == IF a <= b THEN a ELSE b

max_total == 4

V2Finding(out) ==
    [source |-> "v2", headline |-> out.headline, core_logic |-> out.core_logic,
     power_map |-> out.power_map, mechanism |-> out.mechanism]

V1Finding(exp) ==
    [source |-> "v1", title |-> exp.title, message |-> exp.message,
     axis |-> exp.axis, intensity |-> exp.intensity,
     affected_party |-> exp.affected_party]

V0Finding(block) ==
    [source |-> "v0", title |-> block.title, message |-> block.message,
     severity |-> block.severity, risk_code |-> block.risk_code]

\* mutant: every v1 field-explanation is taken, the limit of 2 dropped
V1Findings_NoLimit(v1) ==
    IF Present(v1)
    THEN [i \in 1..Len(v1[1].risk_field_explanations) |->
            V1Finding(v1[1].risk_field_explanations[i])]
    ELSE <<>>

\* lines 183-194: the v1 findings appended
V1Findings(v1) ==
    IF Present(v1)
    THEN LET exps == v1[1].risk_field_explanations
             v1_count == Min(2, Len(exps))
         IN  [i \in 1..v1_count |-> V1Finding(exps[i])]
    ELSE <<>>

\* lines 197-210: the v0 findings appended to the findings held so far
V0Findings(v0, key_findings) ==
    IF Present(v0)
    THEN LET remaining_slots == max_total - Len(key_findings)
             blocks == v0[1].explanation_blocks
         IN  IF remaining_slots > 0
             THEN [i \in 1..Min(remaining_slots, Len(blocks)) |-> V0Finding(blocks[i])]
             ELSE <<>>
    ELSE <<>>

_build_key_findings(v0, v1, v2) ==
    LET from_v2 == IF Present(v2) THEN <<V2Finding(v2[1])>> ELSE <<>>
        upto_v1 == from_v2 \o V1Findings(v1)
    IN  upto_v1 \o V0Findings(v0, upto_v1)

\* The deny-list of _build_next_actions (lines 231-241).  The CJK phrases are
\* written one bracketed syllable per character:
\*   falv jianyi / jujue qianshu / xunqiu falv jianyi / jujue / jianyi xunqiu
filter_keywords ==
    <<"<fa><lv><jian><yi>",
      "<ju><jue><qian><shu>",
      "<xun><qiu><fa><lv><jian><yi>",
      "legal advice",
      "refuse to sign",
      "seek legal",
      "consult a lawyer",
      "<ju><jue>",
      "<jian><yi><xun><qiu>">>

\* keyword.lower() of every deny-list entry
filter_keywords_lower == [k \in 1..Len(filter_keywords) |-> lower(filter_keywords[k])]

\* mutant: the action text compared without lower-casing it
should_filter_CaseSensitive(action_text) ==
    \E k \in 1..Len(filter_keywords_lower) :
        Contains(filter_keywords_lower[k], action_text)

should_filter(action_text) ==
    LET action_lower == lower(action_text)
    IN  \E k \in 1..Len(filter_keywords_lower) :
            Contains(filter_keywords_lower[k], action_lower)

\* one `for` loop of _build_next_actions over the candidate entries of a tier:
\* a filtered action is skipped, an unfiltered one is appended, and the loop
\* breaks as soon as two actions are held
RECURSIVE AppendActions(_, _)
AppendActions(next_actions, candidates) ==
    IF candidates = <<>> THEN next_actions
    ELSE IF should_filter(Head(candidates).action)
    THEN AppendActions(next_actions, Tail(candidates))
    ELSE LET appended == Append(next_actions, Head(candidates))
         IN  IF Len(appended) >= 2 THEN appended
             ELSE AppendActions(appended, Tail(candidates))

V2Actions(out) ==
    [i \in 1..Len(out.user_actions) |->
        [source |-> "v2", action |-> out.user_actions[i], mechanism |-> out.mechanism]]

V1Actions(out) ==
    [i \in 1..Len(out.risk_field_explanations) |->
        [source |-> "v1", action |-> out.risk_field_explanations[i].user_action,
         axis |-> out.risk_field_explanations[i].axis]]

V0Actions(out) ==
    [i \in 1..Len(out.explanation_blocks) |->
        [source |-> "v0", action |-> out.explanation_blocks[i].user_action,
         risk_code |-> out.explanation_blocks[i].risk_code]]

_build_next_actions(v0, v1, v2) ==
    LET after_v2 == IF Present(v2) THEN AppendActions(<<>>, V2Actions(v2[1])) ELSE <<>>
        after_v1 == IF Present(v1) /\ Len(after_v2) < 2
                    THEN AppendActions(after_v2, V1Actions(v1[1])) ELSE after_v2
    IN  IF Present(v0) /\ Len(after_v1) < 2
        THEN AppendActions(after_v1, V0Actions(v0[1])) ELSE after_v1

\* lines 304-315
V0Detail(out) ==
    [explanation_blocks |->
        [i \in 1..Len(out.explanation_blocks) |->
            LET block == out.explanation_blocks[i]
            IN  [title |-> block.title, message |-> block.message,
                 user_action |-> block.user_action, severity |-> block.severity,
                 risk_code |-> block.risk_code]]]

\* lines 319-333
V1Detail(out) ==
    [risk_field_explanations |->
        [i \in 1..Len(out.risk_field_explanations) |->
            LET exp == out.risk_field_explanations[i]
            IN  [axis |-> exp.axis, intensity |-> exp.intensity,
                 affected_party |-> exp.affected_party, title |-> exp.title,
                 message |-> exp.message, user_action |-> exp.user_action,
                 compounding |-> exp.compounding, source_blocks |-> exp.source_blocks]]]

\* mutant: empty v2 values replaced by defaults (`value or default`)
V2Detail_Defaults(out) ==
    [mechanism |-> out.mechanism,
     headline |-> IF out.headline = "" THEN "N/A" ELSE out.headline,
     core_logic |-> out.core_logic, power_map |-> out.power_map,
     irreversibility |-> out.irreversibility,
     escape_window |-> out.escape_window,
     user_actions |-> IF out.user_actions = <<>> THEN <<"Review the contract">>
                      ELSE out.user_actions,
     confidence_level |-> out.confidence_level]

\* lines 337-352; lock_in_dynamics is a key of the block only when present
V2Detail(out) ==
    LET v2_detail ==
            [mechanism |-> out.mechanism, headline |-> out.headline,
             core_logic |-> out.core_logic, power_map |-> out.power_map,
             irreversibility |-> out.irreversibility,
             escape_window |-> out.escape_window,
             user_actions |-> out.user_actions,
             confidence_level |-> out.confidence_level]
    IN  IF Present(out.lock_in_dynamics)
        THEN v2_detail @@
             ("lock_in_dynamics" :> [description |-> out.lock_in_dynamics[1].description])
        ELSE v2_detail

\* a dict with the given key when the tier is supplied, the empty dict otherwise
TierEntry(key, optional, value) ==
    [k \in (IF Present(optional) THEN {key} ELSE {}) |-> value]

_build_details(v0, v1, v2) ==
    TierEntry("v0", v0, IF Present(v0) THEN V0Detail(v0[1]) ELSE <<>>)
    @@ TierEntry("v1", v1, IF Present(v1) THEN V1Detail(v1[1]) ELSE <<>>)
    @@ TierEntry("v2", v2, IF Present(v2) THEN V2Detail(v2[1]) ELSE <<>>)

\* ExplainGateway.aggregate
aggregate(v0, v1, v2) ==
    [overview |-> _build_overview(v0, v1, v2),
     key_findings |-> _build_key_findings(v0, v1, v2),
     next_actions |-> _build_next_actions(v0, v1, v2),
     details |-> _build_details(v0, v1, v2)]

---------------------------------------------------------------------------
(* Values of the variables a specification does not use *)

IdleAnalysis == extracted_signals = <<>> /\ analysis_output = NoAnalysisOutput

IdleTraps == risk_signals = <<>> /\ traps = <<>>

IdleGateway ==
    /\ explain_v0_output = <<>>
    /\ explain_v1_output = <<>>
    /\ explain_v2_output = <<>>
    /\ gateway_output = <<>>

IdleExplain == explain_inputs = <<>> /\ explain_outputs = <<>>

analysis_vars == <<extracted_signals, analysis_output>>

trap_vars == <<risk_signals, traps>>

gateway_vars == <<explain_v0_output, explain_v1_output, explain_v2_output, gateway_output>>

explain_vars == <<explain_inputs, explain_outputs>>

IdleChains == chains = <<>>

IdleExplainV2 == input_data = <<>> /\ explain_v2_result = <<>>

IdleBuilder == build_risk_items = <<>> /\ build_signals = <<>> /\ risk_fields = <<>>

chain_vars == <<chains>>

explain_v2_vars == <<input_data, explain_v2_result>>

builder_vars == <<build_risk_items, build_signals, risk_fields>>

IdleIngestion == contract_text = "" /\ ingestion_result = <<>>

IdleExtraction ==
    rules_data = <<>> /\ extraction_service = <<>> /\ extraction_candidates = <<>>

ingestion_vars == <<contract_text, ingestion_result>>

extraction_vars == <<rules_data, extraction_service, extraction_candidates>>

---------------------------------------------------------------------------
(* Specification of the analysis stage *)

InitAnalysis ==
    /\ pc = "analyze"
    /\ extracted_signals \in SeqsUpTo(SignalPool, MaxSignals)
    /\ analysis_output = NoAnalysisOutput
    /\ IdleTraps /\ IdleGateway /\ IdleExplain
    /\ IdleChains /\ IdleExplainV2 /\ IdleBuilder
    /\ IdleIngestion /\ IdleExtraction

Analyze ==
    /\ pc = "analyze"
    /\ analysis_output' = analyze(extracted_signals)
    /\ pc' = "analyzed"
    /\ UNCHANGED <<extracted_signals, trap_vars, gateway_vars, explain_vars,
                   chain_vars, explain_v2_vars, builder_vars,
                   ingestion_vars, extraction_vars>>

NextAnalysis == Analyze

SpecAnalysis == InitAnalysis /\ [][NextAnalysis]_vars

---------------------------------------------------------------------------
(* Specification of the trap engine *)

InitTraps ==
    /\ pc = "detect_traps"
    /\ risk_signals \in SeqsUpTo({RiskSignal(t) : t \in RiskSignalTypes}, MaxRiskSignals)
    /\ traps = <<>>
    /\ IdleAnalysis /\ IdleGateway /\ IdleExplain
    /\ IdleChains /\ IdleExplainV2 /\ IdleBuilder
    /\ IdleIngestion /\ IdleExtraction

DetectTraps ==
    /\ pc = "detect_traps"
    /\ \E ids \in [1..4 -> TrapIds] : traps' = detect_traps(risk_signals, ids)
    /\ pc' = "traps_detected"
    /\ UNCHANGED <<risk_signals, analysis_vars, gateway_vars, explain_vars,
                   chain_vars, explain_v2_vars, builder_vars,
                   ingestion_vars, extraction_vars>>

NextTraps == DetectTraps

SpecTraps == InitTraps /\ [][NextTraps]_vars

---------------------------------------------------------------------------
(* Specification of the aggregation gateway *)

ExplanationBlock(title, message, user_action, severity, risk_code) ==
    [title |-> title, message |-> message, user_action |-> user_action,
     severity |-> severity, risk_code |-> risk_code]

\* v0 blocks handed to the gateway: one with a plain action, one whose action
\* holds a deny-listed phrase in mixed case, one with empty texts
BlockPool ==
    { ExplanationBlock("Automatic Renewal", "The contract may renew automatically.",
                       "Mark the renewal date", "low", "AUTO_RENEWAL"),
      ExplanationBlock("Limited Prior Notice", "Changes may come without notice.",
                       "Please Seek Legal Advice", "high", "LIMITED_NOTICE"),
      ExplanationBlock("Unilateral Change", "", "", "medium", "UNILATERAL_CHANGE") }

RiskFieldExplanation(axis, intensity, title, message, user_action, compounding, source_blocks) ==
    [axis |-> axis, intensity |-> intensity, affected_party |-> "tenant",
     title |-> title, message |-> message, user_action |-> user_action,
     compounding |-> compounding, source_blocks |-> source_blocks]

ExplanationPool ==
    { RiskFieldExplanation("temporal", "medium", "Renewal locks you in",
                           "The term renews unless you act.", "Set a reminder",
                           FALSE, <<"block_0">>),
      RiskFieldExplanation("liability", "high", "Liability is one-sided",
                           "The landlord excludes liability.", "You should REFUSE TO SIGN",
                           TRUE, <<"block_1", "block_2">>),
      RiskFieldExplanation("responsibility", "low", "", "",
                           "<qing><ju><jue><qian><shu>", TRUE, <<>>) }

EmptyDict == [k \in {} |-> ""]

V2Pool ==
    { [mechanism |-> "Temporal Lock-in", headline |-> "X",
       core_logic |-> "Test Core Logic", power_map |-> "Test Power Map",
       irreversibility |-> "partially_reversible",
       lock_in_dynamics |-> <<[description |-> "Test lock-in dynamics"]>>,
       escape_window |-> [exists |-> "yes", conditions |-> "Test conditions"],
       user_actions |-> <<"Action 1", "Consult a Lawyer", "Action 3">>,
       confidence_level |-> "high"],
      [mechanism |-> "Exit Barrier", headline |-> "",
       core_logic |-> "", power_map |-> "",
       irreversibility |-> "irreversible",
       lock_in_dynamics |-> <<>>,
       escape_window |-> EmptyDict,
       user_actions |-> <<>>,
       confidence_level |-> "low"],
      [mechanism |-> "Asymmetric Power", headline |-> "V2 Headline",
       core_logic |-> "V2 Core Logic", power_map |-> "V2 Power Map",
       irreversibility |-> "reversible",
       lock_in_dynamics |-> <<[description |-> ""]>>,
       escape_window |-> [original |-> "value"],
       user_actions |-> <<"Original Action">>,
       confidence_level |-> "medium"] }

Optional(S) == {<<>>} \cup {<<x>> : x \in S}

V0Outputs ==
    {[overall_message |-> "V0 Message", explanation_blocks |-> blocks] :
        blocks \in SeqsUpTo(BlockPool, MaxBlocks)}

V1Outputs ==
    {[risk_field_explanations |-> exps] : exps \in SeqsUpTo(ExplanationPool, MaxExplanations)}

InitGateway ==
    /\ pc = "aggregate"
    /\ explain_v0_output \in Optional(V0Outputs)
    /\ explain_v1_output \in Optional(V1Outputs)
    /\ explain_v2_output \in Optional(V2Pool)
    /\ gateway_output = <<>>
    /\ IdleAnalysis /\ IdleTraps /\ IdleExplain
    /\ IdleChains /\ IdleExplainV2 /\ IdleBuilder
    /\ IdleIngestion /\ IdleExtraction

Aggregate ==
    /\ pc = "aggregate"
    /\ gateway_output' = aggregate(explain_v0_output, explain_v1_output, explain_v2_output)
    /\ pc' = "aggregated"
    /\ UNCHANGED <<explain_v0_output, explain_v1_output, explain_v2_output,
                   analysis_vars, trap_vars, explain_vars,
                   chain_vars, explain_v2_vars, builder_vars,
                   ingestion_vars, extraction_vars>>

NextGateway == Aggregate

SpecGateway == InitGateway /\ [][NextGateway]_vars

---------------------------------------------------------------------------
(* Properties *)

\* the highest level of a set of levels under high > medium > low, "low" if empty
MaxLevel(levels) ==
    IF levels = {} THEN "low"
    ELSE CHOOSE l \in levels : \A m \in levels : LevelRank(m) <= LevelRank(l)

KnownSignals(signals) ==
    {i \in 1..Len(signals) : signals[i].rule_id \in DOMAIN risk_mappings}

TriggeredSeverities(signals) ==
    {risk_mappings[signals[i].rule_id].severity : i \in KnownSignals(signals)}

\* C1: after analyze, analysis_summary.risk_level is the maximum risk-mapping
\* severity (high > medium > low) among the risk codes the signals trigger, and
\* "low" when no risk code is triggered.
C1_RiskLevelIsMaxSeverity ==
    pc = "analyzed" =>
        analysis_output.analysis_summary.risk_level
            = MaxLevel(TriggeredSeverities(extracted_signals))

\* C2: every RiskItem returned by analyze carries the severity the risk-mapping
\* table records for the rule_ids that triggered its risk_code.
C2_RiskItemSeverityFromMapping ==
    pc = "analyzed" =>
        \A i \in 1..Len(analysis_output.risk_items) :
            LET item == analysis_output.risk_items[i]
            IN  \A k \in 1..Len(item.evidence_rules) :
                    item.severity = risk_mappings[item.evidence_rules[k]].severity

TrapTypes == {"temporal_lock", "asymmetric_power", "exit_barrier", "interpretation_ambiguity"}

DefiningSet(trap_type) ==
    CASE trap_type = "temporal_lock" -> temporal_signals
      [] trap_type = "asymmetric_power" -> asymmetric_signals
      [] trap_type = "exit_barrier" -> exit_barrier_signals
      [] trap_type = "interpretation_ambiguity" -> interpretation_signals

\* the number of input signals whose type lies in the defining set of trap_type
MatchCount(signals, trap_type) ==
    Cardinality({i \in 1..Len(signals) : signals[i].type \in DefiningSet(trap_type)})

TrapsOfType(ts, trap_type) == {i \in 1..Len(ts) : ts[i].trap_type = trap_type}

\* C3: the severity of every emitted trap is fixed by the number of input
\* signals in its detector's defining set: one matching signal gives low for
\* temporal_lock and medium for the three other detectors, two or more give
\* high, whichever signals matched.
C3_TrapSeverityByMatchCount ==
    pc = "traps_detected" =>
        \A i \in 1..Len(traps) :
            LET n == MatchCount(risk_signals, traps[i].trap_type)
            IN  /\ n = 1 => traps[i].severity =
                                (IF traps[i].trap_type = "temporal_lock" THEN "low" ELSE "medium")
                /\ n >= 2 => traps[i].severity = "high"

\* C3 witness: a run in which one detector saw two signals of the same type
\* (high) and another saw exactly one (its single-match severity).
C3_Witness ==
    /\ pc = "traps_detected"
    /\ Len(risk_signals) = 3
    /\ risk_signals[1] = risk_signals[2]
    /\ \E i, j \in 1..Len(traps) :
        /\ traps[i].severity = "high"
        /\ traps[j].trap_type = "temporal_lock" /\ traps[j].severity = "low"

FinalInterpretationOnly == <<RiskSignal("FINAL_INTERPRETATION_RIGHT")>>

\* C4: a trap of a given type is emitted exactly when some input signal lies
\* in that type's defining set, at most once per type, and none at all when no
\* signal lies in any defining set; a lone FINAL_INTERPRETATION_RIGHT signal
\* yields an asymmetric_power and an interpretation_ambiguity trap that both
\* list it in related_signals.
C4_TrapEmittedIffDefiningSignal ==
    pc = "traps_detected" =>
        /\ \A t \in TrapTypes :
            /\ (TrapsOfType(traps, t) # {}) <=> (MatchCount(risk_signals, t) >= 1)
            /\ Cardinality(TrapsOfType(traps, t)) <= 1
        /\ \A i \in 1..Len(traps) : traps[i].trap_type \in TrapTypes
        /\ (\A t \in TrapTypes : MatchCount(risk_signals, t) = 0) => traps = <<>>
        /\ risk_signals = FinalInterpretationOnly =>
            /\ Len(traps) = 2
            /\ {traps[i].trap_type : i \in 1..Len(traps)}
                    = {"asymmetric_power", "interpretation_ambiguity"}
            /\ \A i \in 1..Len(traps) : traps[i].related_signals = FinalInterpretationOnly

\* C4 witness: the engine has run on a lone FINAL_INTERPRETATION_RIGHT signal
\* and emitted two traps.
C4_Witness ==
    /\ pc = "traps_detected"
    /\ risk_signals = FinalInterpretationOnly
    /\ Len(traps) = 2

---------------------------------------------------------------------------
(* Properties of the aggregation gateway *)

V0Blocks == IF Present(explain_v0_output) THEN explain_v0_output[1].explanation_blocks ELSE <<>>

V1Explanations ==
    IF Present(explain_v1_output) THEN explain_v1_output[1].risk_field_explanations ELSE <<>>

SourceRank(source) == CASE source = "v2" -> 3 [] source = "v1" -> 2 [] source = "v0" -> 1

FindingsFrom(findings, source) == {i \in 1..Len(findings) : findings[i].source = source}

DenyListedActions ==
    {"Please Seek Legal Advice", "You should REFUSE TO SIGN", "Consult a Lawyer",
     "<qing><ju><jue><qian><shu>"}

\* v2 user_actions, then v1 user_action texts, then v0 user_action texts
AllActionTexts ==
    (IF Present(explain_v2_output) THEN explain_v2_output[1].user_actions ELSE <<>>)
    \o [i \in 1..Len(V1Explanations) |-> V1Explanations[i].user_action]
    \o [i \in 1..Len(V0Blocks) |-> V0Blocks[i].user_action]

AllActionSources ==
    (IF Present(explain_v2_output)
     THEN [i \in 1..Len(explain_v2_output[1].user_actions) |-> "v2"] ELSE <<>>)
    \o [i \in 1..Len(V1Explanations) |-> "v1"]
    \o [i \in 1..Len(V0Blocks) |-> "v0"]

\* the positions of AllActionTexts whose action is not deny-listed, ascending
RECURSIVE AllowedPositions(_, _)
AllowedPositions(texts, from) ==
    IF from > Len(texts) THEN <<>>
    ELSE IF texts[from] \in DenyListedActions THEN AllowedPositions(texts, from + 1)
    ELSE <<from>> \o AllowedPositions(texts, from + 1)

\* C6: next_actions is the first (at most 2) elements of the v2, v1, v0 actions
\* in that order with every deny-listed action removed: at most 2 entries, no
\* deny-listed action, and a removed action takes none of the 2 slots.
C6_NextActionsFilteredCap ==
    pc = "aggregated" =>
        LET na == gateway_output.next_actions
            allowed == AllowedPositions(AllActionTexts, 1)
        IN  /\ Len(na) <= 2
            /\ Len(na) = Min(2, Len(allowed))
            /\ \A i \in 1..Len(na) :
                    /\ na[i].action = AllActionTexts[allowed[i]]
                    /\ na[i].source = AllActionSources[allowed[i]]
                    /\ na[i].action \notin DenyListedActions

\* C6 witness: a deny-listed action stood before the second action kept, and
\* two actions were still returned.
C6_Witness ==
    /\ pc = "aggregated"
    /\ Len(gateway_output.next_actions) = 2
    /\ Len(AllActionTexts) >= 3
    /\ AllActionTexts[1] \in DenyListedActions
    /\ AllActionTexts[3] \in DenyListedActions
    /\ gateway_output.next_actions[1].source # gateway_output.next_actions[2].source

SuppliedSummaryTexts ==
    (IF Present(explain_v2_output) THEN {explain_v2_output[1].headline} ELSE {})
    \cup {V1Explanations[i].title : i \in 1..Len(V1Explanations)}
    \cup (IF Present(explain_v0_output) THEN {explain_v0_output[1].overall_message} ELSE {})

\* C8: summary is the v2 headline whenever v2 is supplied; otherwise the title
\* of the first v1 field-explanation; otherwise the v0 overall_message (so with
\* v1 supplied empty and v0 supplied it is the v0 overall_message).  It stays
\* the empty initial value only when no tier offers a text, and is never a
\* text that none of the supplied tiers carries.
C8_SummaryPriority ==
    pc = "aggregated" =>
        LET s == gateway_output.overview.summary
        IN  /\ Present(explain_v2_output) => s = explain_v2_output[1].headline
            /\ (~Present(explain_v2_output) /\ V1Explanations # <<>>)
                    => s = V1Explanations[1].title
            /\ (~Present(explain_v2_output) /\ V1Explanations = <<>>
                    /\ Present(explain_v0_output))
                    => s = explain_v0_output[1].overall_message
            /\ s # "" => s \in SuppliedSummaryTexts
            /\ (SuppliedSummaryTexts = {}) => s = ""

\* C8 witness: v1 was supplied with an empty explanation list together with
\* v0, without v2, and the summary is the v0 overall_message.
C8_Witness ==
    /\ pc = "aggregated"
    /\ ~Present(explain_v2_output)
    /\ Present(explain_v1_output) /\ V1Explanations = <<>>
    /\ Present(explain_v0_output)
    /\ gateway_output.overview.summary = "V0 Message"

SuppliedTiers ==
    (IF Present(explain_v0_output) THEN {"v0"} ELSE {})
    \cup (IF Present(explain_v1_output) THEN {"v1"} ELSE {})
    \cup (IF Present(explain_v2_output) THEN {"v2"} ELSE {})

V2PassThroughFields ==
    {"mechanism", "headline", "core_logic", "power_map", "irreversibility",
     "escape_window", "user_actions", "confidence_level"}

\* C9: details has a block keyed v0, v1 or v2 exactly for the tiers supplied,
\* and every field of a block equals the same field of that tier's input;
\* empty strings, lists and dicts are kept as they are.
C9_DetailsPassThrough ==
    pc = "aggregated" =>
        LET details == gateway_output.details
        IN  /\ DOMAIN details = SuppliedTiers
            /\ "v0" \in SuppliedTiers =>
                /\ DOMAIN details["v0"] = {"explanation_blocks"}
                /\ details["v0"].explanation_blocks = V0Blocks
            /\ "v1" \in SuppliedTiers =>
                /\ DOMAIN details["v1"] = {"risk_field_explanations"}
                /\ details["v1"].risk_field_explanations = V1Explanations
            /\ "v2" \in SuppliedTiers =>
                LET given == explain_v2_output[1]
                    block == details["v2"]
                IN  /\ \A f \in V2PassThroughFields : block[f] = given[f]
                    /\ DOMAIN block \ V2PassThroughFields =
                            (IF Present(given.lock_in_dynamics)
                             THEN {"lock_in_dynamics"} ELSE {})
                    /\ Present(given.lock_in_dynamics) =>
                            block["lock_in_dynamics"] = given.lock_in_dynamics[1]

\* C9 witness: v0 and an all-empty v2 were supplied without v1; details has
\* exactly the keys v0 and v2 and the empty v2 values are kept.
C9_Witness ==
    /\ pc = "aggregated"
    /\ SuppliedTiers = {"v0", "v2"}
    /\ explain_v2_output[1].headline = ""
    /\ DOMAIN gateway_output.details = {"v0", "v2"}
    /\ gateway_output.details["v2"].headline = ""
    /\ gateway_output.details["v2"].user_actions = <<>>
    /\ gateway_output.details["v2"].escape_window = EmptyDict

---------------------------------------------------------------------------
(* Explanation v0 (free tier): ExplainService *)

\* The v0 template table loaded by _load_templates.  The overall_messages and
\* the titles are the ones the unit tests of the repository rely on.
templates ==
    [overall_messages |->
        [low |-> "No major risk indicators were detected in this contract.",
         medium |-> "Some contract terms may require your attention.",
         high |-> "This contract contains terms that should be reviewed carefully."],
     risk_explanations |->
        [AUTO_RENEWAL |->
            [title |-> "Automatic Renewal",
             message |-> "This contract may renew automatically.",
             user_action |-> "Check the renewal date."],
         LIMITED_NOTICE |->
            [title |-> "Limited Prior Notice",
             message |-> "Changes may take effect with little notice.",
             user_action |-> "Check the notice period."],
         UNILATERAL_CHANGE |->
            [title |-> "Unilateral Change",
             message |-> "One party may change the terms alone.",
             user_action |-> "Check how changes are announced."]]]

\* the neutral sentence of explain, line 103 (one bracketed syllable per
\* CJK character)
NeutralOverallMessage ==
    "<wo><men><fa><xian><le><yi><xie><xu><yao><nin><zhu><yi><de><tiao><kuan>."
        \o "<qing><cha><kan><yi><xia><xiang><xi><xin><xi>."

\* mutant: the template's "no major risk" message when there is no risk item
overall_message_LowWhenNoItems(analysis) ==
    IF analysis.risk_items = <<>>
    THEN templates.overall_messages["low"]
    ELSE NeutralOverallMessage

\* mutant: the overall message looked up by the aggregate risk level
overall_message_ByRiskLevel(analysis) ==
    templates.overall_messages[analysis.analysis_summary.risk_level]

\* explain, lines 102-103
overall_message(analysis) == NeutralOverallMessage

\* explain, line 124: the severity written into a block
BlockSeverity(risk_item) == "low"

\* ExplainService.explain
explain(analysis) ==
    LET risk_explanations == templates.risk_explanations
        HasTemplate(risk_item) == risk_item.risk_code \in DOMAIN risk_explanations
        explained == SelectSeq(analysis.risk_items, HasTemplate)
    IN  [overall_message |-> overall_message(analysis),
         explanation_blocks |->
            [i \in 1..Len(explained) |->
                LET template == risk_explanations[explained[i].risk_code]
                IN  [title |-> template.title,
                     message |-> template.message,
                     user_action |-> template.user_action,
                     severity |-> BlockSeverity(explained[i]),
                     risk_code |-> explained[i].risk_code]]]

---------------------------------------------------------------------------
(* Specification of the free-tier explanation service: explain is applied to *)
(* two AnalysisOutputs that list the same risk codes                         *)

ExplainedCodes == {"AUTO_RENEWAL", "LIMITED_NOTICE", "UNKNOWN_RISK"}

AnalysisOutputOf(codes, severities, risk_level) ==
    [analysis_summary |->
        [risk_level |-> risk_level, risk_flags |-> codes, confidence |-> 1],
     risk_items |->
        [i \in 1..Len(codes) |->
            [risk_code |-> codes[i], severity |-> severities[i],
             evidence_rules |-> <<"keyword_001">>, description |-> "Test"]],
     risk_fields |-> <<>>]

\* explain is handed two AnalysisOutputs with the same sequence of risk codes;
\* the first takes any severities and level, the second one severity for all
\* its items and any level
InitExplain ==
    /\ pc = "explain"
    /\ \E n \in 0..MaxRiskItems :
        \E codes \in [1..n -> ExplainedCodes], sev1 \in [1..n -> Levels],
           sev2 \in Levels, lvl1 \in Levels, lvl2 \in Levels :
            explain_inputs = <<AnalysisOutputOf(codes, sev1, lvl1),
                               AnalysisOutputOf(codes, [i \in 1..n |-> sev2], lvl2)>>
    /\ explain_outputs = <<>>
    /\ IdleAnalysis /\ IdleTraps /\ IdleGateway
    /\ IdleChains /\ IdleExplainV2 /\ IdleBuilder
    /\ IdleIngestion /\ IdleExtraction

Explain ==
    /\ pc = "explain"
    /\ explain_outputs' = <<explain(explain_inputs[1]), explain(explain_inputs[2])>>
    /\ pc' = "explained"
    /\ UNCHANGED <<explain_inputs, analysis_vars, trap_vars, gateway_vars,
                   chain_vars, explain_v2_vars, builder_vars,
                   ingestion_vars, extraction_vars>>

NextExplain == Explain

SpecExplain == InitExplain /\ [][NextExplain]_vars

---------------------------------------------------------------------------
(* Properties of the free-tier explanation service *)

SameRiskCodes(a, b) ==
    [i \in 1..Len(a.risk_items) |-> a.risk_items[i].risk_code]
        = [i \in 1..Len(b.risk_items) |-> b.risk_items[i].risk_code]

RenderedItems(analysis) ==
    LET HasTemplate(risk_item) ==
            risk_item.risk_code \in DOMAIN templates.risk_explanations
    IN  SelectSeq(analysis.risk_items, HasTemplate)

\* C12: every ExplanationBlock carries the severity of the RiskItem it was
\* rendered from: a medium RiskItem gives a block of severity medium, a high
\* RiskItem a block of severity high.
C12_BlockSeverityFromRiskItem ==
    pc = "explained" =>
        \A k \in 1..2 :
            LET rendered == RenderedItems(explain_inputs[k])
                blocks == explain_outputs[k].explanation_blocks
            IN  /\ Len(blocks) = Len(rendered)
                /\ \A i \in 1..Len(blocks) :
                    /\ blocks[i].risk_code = rendered[i].risk_code
                    /\ blocks[i].severity = rendered[i].severity

---------------------------------------------------------------------------
(* Explanation v2 (mechanism tier): ExplainV2Service *)

TrapType == {"Temporal Lock-in", "Asymmetric Power", "Exit Barrier", "Ambiguity"}

Strength == {"low", "medium", "high"}

Beneficiary == {"provider", "counterparty"}

Irreversibility == {"reversible", "partially_reversible", "irreversible"}

ExplainV2Input(trap_type, strength, beneficiary, irreversibility, evidence, window) ==
    [trap_type |-> trap_type, strength |-> strength, beneficiary |-> beneficiary,
     cost_bearer |-> "user", irreversibility |-> irreversibility,
     evidence |-> evidence, window |-> window]

\* _explain_temporal_lock_in, lines 76-81
headline(strength) ==
    IF strength = "high"
    THEN "<ru><guo><cuo><guo><le><te><ding><de><shi><jian><dian>,<hou><xu><xiang><yao><tui><chu><de><hua>,<cheng><ben><ke><neng><hui><zeng><jia>."
    ELSE IF strength = "medium"
    THEN "<ru><guo><cuo><guo><le><te><ding><de><shi><jian><dian>,<hou><xu><xiang><yao><tui><chu><de><hua>,<cheng><ben><ke><neng><hui><zeng><jia>."
    ELSE "<ru><guo><cuo><guo><le><te><ding><de><shi><jian><dian>,<hou><xu><xiang><yao><tui><chu><de><hua>,<cheng><ben><ke><neng><hui><zeng><jia>."

\* _explain_temporal_lock_in, lines 84-89
core_logic(strength) ==
    IF strength = "high"
    THEN "<ru><guo><cuo><guo><le><mou><ge><shi><jian><chuang><kou>,<he><tong><hui><zi><dong><yan><xu>,<dao><na><shi><zai><qu><xiao><de><hua>,<xu><yao><fu><chu><de><dai><jia><ke><neng><hui><bi><xian><zai><gao><yi><xie>."
    ELSE IF strength = "medium"
    THEN "<ru><guo><cuo><guo><le><mou><ge><shi><jian><chuang><kou>,<he><tong><hui><zi><dong><yan><xu>,<dao><na><shi><zai><qu><xiao><de><hua>,<xu><yao><fu><chu><de><dai><jia><ke><neng><hui><bi><xian><zai><gao><yi><xie>."
    ELSE "<ru><guo><cuo><guo><le><mou><ge><shi><jian><chuang><kou>,<he><tong><hui><zi><dong><yan><xu>,<dao><na><shi><zai><qu><xiao><de><hua>,<xu><yao><fu><chu><de><dai><jia><ke><neng><hui><bi><xian><zai><gao><yi><xie>."

\* _explain_temporal_lock_in, lines 92-95
power_map(beneficiary) ==
    IF beneficiary = "provider"
    THEN "<fu><wu><ti><gong><fang><ke><yi><zai><te><ding><shi><jian><zi><dong><yan><xu><he><tong>,<er><ru><guo><cuo><guo><le><qu><xiao><de><shi><jian>,<hou><xu><cheng><ben><tong><chang><xu><yao><you><yong><hu><cheng><dan>."
    ELSE "<dui><fang><ke><yi><zai><te><ding><shi><jian><zi><dong><yan><xu><he><tong>,<er><ru><guo><cuo><guo><le><qu><xiao><de><shi><jian>,<hou><xu><cheng><ben><tong><chang><xu><yao><you><yong><hu><cheng><dan>."

\* _explain_temporal_lock_in, lines 98-103
lock_in_dynamics_desc(strength) ==
    IF strength = "high"
    THEN "<yi><dan><guo><le><ke><yi><qu><xiao><de><shi><jian><dian>,<he><tong><hui><zi><dong><ji><xu>,<zhi><hou><xiang><yao><tui><chu><de><hua>,<fu><chu><de><dai><jia><ke><neng><hui><bi><xian><zai><geng><gao>."
    ELSE IF strength = "medium"
    THEN "<yi><dan><guo><le><ke><yi><qu><xiao><de><shi><jian><dian>,<he><tong><hui><zi><dong><ji><xu>,<zhi><hou><xiang><yao><tui><chu><de><hua>,<fu><chu><de><dai><jia><ke><neng><hui><bi><xian><zai><geng><gao>."
    ELSE "<yi><dan><guo><le><ke><yi><qu><xiao><de><shi><jian><dian>,<he><tong><hui><zi><dong><ji><xu>,<zhi><hou><xiang><yao><tui><chu><de><hua>,<fu><chu><de><dai><jia><ke><neng><hui><bi><xian><zai><geng><gao>."

\* mutant: the medium branch returns the list of the high branch
user_actions_MediumAsHigh(strength) ==
    IF strength \in {"high", "medium"}
    THEN << "<ji><xia><xu><yao><zuo><chu><jue><ding><de><jie><zhi><ri><qi>,<bing><she><zhi><ti><xing>",
            "<zai><jie><zhi><ri><qi><qian><kao><lv><shi><fou><yao><ji><xu>",
            "<xian><liao><jie><yi><xia>,<ru><guo><cuo><guo><qu><xiao><chuang><kou>,<hou><xu><tui><chu><de><cheng><ben><ke><neng><hui><shi><duo><shao>" >>
    ELSE << "<ji><xia><xu><yao><zuo><chu><jue><ding><de><jie><zhi><ri><qi>,<bing><she><zhi><ti><xing>" >>

\* _explain_temporal_lock_in, lines 111-125
user_actions(strength) ==
    IF strength = "high"
    THEN << "<ji><xia><xu><yao><zuo><chu><jue><ding><de><jie><zhi><ri><qi>,<bing><she><zhi><ti><xing>",
            "<zai><jie><zhi><ri><qi><qian><kao><lv><shi><fou><yao><ji><xu>",
            "<xian><liao><jie><yi><xia>,<ru><guo><cuo><guo><qu><xiao><chuang><kou>,<hou><xu><tui><chu><de><cheng><ben><ke><neng><hui><shi><duo><shao>" >>
    ELSE IF strength = "medium"
    THEN << "<ji><xia><xu><yao><zuo><chu><jue><ding><de><jie><zhi><ri><qi>,<bing><she><zhi><ti><xing>",
            "<zai><jie><zhi><ri><qi><qian><kao><lv><shi><fou><yao><ji><xu>" >>
    ELSE << "<ji><xia><xu><yao><zuo><chu><jue><ding><de><jie><zhi><ri><qi>,<bing><she><zhi><ti><xing>" >>

\* _explain_temporal_lock_in, lines 129-134
confidence_level(strength) ==
    IF strength = "high" THEN "high"
    ELSE IF strength = "medium" THEN "medium"
    ELSE "low"

\* ExplainV2Service._explain_temporal_lock_in
_explain_temporal_lock_in(given) ==
    [mechanism |-> given.trap_type,
     headline |-> headline(given.strength),
     core_logic |-> core_logic(given.strength),
     power_map |-> power_map(given.beneficiary),
     irreversibility |-> given.irreversibility,
     lock_in_dynamics |-> <<[description |-> lock_in_dynamics_desc(given.strength)]>>,
     escape_window |-> given.window,
     user_actions |-> user_actions(given.strength),
     confidence_level |-> confidence_level(given.strength)]

Raised(error, message) == [outcome |-> "raise", error |-> error, message |-> message]

Returned(value) == [outcome |-> "return", value |-> value]

\* mutant: the first line of the guard only rejects the Ambiguity mechanism
ExplainV2Service_explain_GuardAmbiguityOnly(given) ==
    IF given.trap_type = "Ambiguity"
    THEN Raised("ValueError",
                "Explain v2 currently only supports Temporal Lock-in. Received: "
                    \o given.trap_type)
    ELSE Returned(_explain_temporal_lock_in(given))

\* ExplainV2Service.explain: what the call does, raise or return
ExplainV2Service_explain(given) ==
    IF given.trap_type # "Temporal Lock-in"
    THEN Raised("ValueError",
                "Explain v2 currently only supports Temporal Lock-in. Received: "
                    \o given.trap_type)
    ELSE Returned(_explain_temporal_lock_in(given))

---------------------------------------------------------------------------
(* Specification of the mechanism-tier explanation service *)

\* the evidence dicts the callers of the service build
EvidencePool ==
    { [signals |-> <<"AUTO_RENEWAL", "SHORT_NOTICE_WINDOW">>,
       clause_references |-> <<"<xu><yue><tiao><kuan>", "<tong><zhi><tiao><kuan>">>],
      [signals |-> <<"AUTO_RENEWAL">>,
       clause_references |-> <<"<xu><yue><tiao><kuan>">>] }

\* escape windows: the one the callers build, a closed one, and the empty dict
WindowPool ==
    { [exists |-> TRUE,
       conditions |-> "<zai><xu><yue><chuang><kou><guan><bi><qian><ti><gong><shu><mian><zhong><zhi><tong><zhi>",
       deadline |-> "<he><tong><dao><qi><qian>90<tian>"],
      [exists |-> FALSE, conditions |-> "", deadline |-> ""],
      EmptyDict }

InitExplainV2 ==
    /\ pc = "explain_v2"
    /\ \E trap_type \in TrapType, strength \in Strength, beneficiary \in Beneficiary,
          irreversibility \in Irreversibility, evidence \in EvidencePool,
          window \in WindowPool :
            input_data = ExplainV2Input(trap_type, strength, beneficiary,
                                        irreversibility, evidence, window)
    /\ explain_v2_result = <<>>
    /\ IdleAnalysis /\ IdleTraps /\ IdleGateway /\ IdleExplain
    /\ IdleChains /\ IdleBuilder
    /\ IdleIngestion /\ IdleExtraction

ExplainV2 ==
    /\ pc = "explain_v2"
    /\ explain_v2_result' = ExplainV2Service_explain(input_data)
    /\ pc' = "explained_v2"
    /\ UNCHANGED <<input_data, analysis_vars, trap_vars, gateway_vars, explain_vars,
                   chain_vars, builder_vars,
                   ingestion_vars, extraction_vars>>

NextExplainV2 == ExplainV2

SpecExplainV2 == InitExplainV2 /\ [][NextExplainV2]_vars

---------------------------------------------------------------------------
(* Properties of the mechanism-tier explanation service *)

\* C13: explain fails closed.  For every input whose trap_type is not Temporal
\* Lock-in (Asymmetric Power, Exit Barrier, Ambiguity) the call raises and
\* returns no ExplainV2Output, whatever the other fields are; for Temporal
\* Lock-in it never raises.
C13_FailsClosedOnUnsupportedTrapType ==
    pc = "explained_v2" =>
        /\ input_data.trap_type \in {"Asymmetric Power", "Exit Barrier", "Ambiguity"}
                => /\ explain_v2_result.outcome = "raise"
                   /\ "value" \notin DOMAIN explain_v2_result
        /\ input_data.trap_type = "Temporal Lock-in"
                => explain_v2_result.outcome = "return"

\* C13 witness: the call was made with an Exit Barrier input of high strength
\* and a well-formed window, and it raised.
C13_Witness ==
    /\ pc = "explained_v2"
    /\ input_data.trap_type = "Exit Barrier"
    /\ input_data.strength = "high"
    /\ input_data.window # EmptyDict
    /\ explain_v2_result.outcome = "raise"

ActionCount(strength) ==
    CASE strength = "low" -> 1 [] strength = "medium" -> 2 [] strength = "high" -> 3

\* C14: for every Temporal Lock-in input the output has exactly 1, 2 or 3
\* user_actions for strength low, medium or high, its confidence_level is the
\* input strength, its escape_window the input window, its irreversibility and
\* mechanism the input's irreversibility and trap_type, and lock_in_dynamics
\* is present.
C14_TemporalLockInOutputFields ==
    (pc = "explained_v2" /\ input_data.trap_type = "Temporal Lock-in") =>
        /\ explain_v2_result.outcome = "return"
        /\ LET out == explain_v2_result.value
           IN  /\ Len(out.user_actions) = ActionCount(input_data.strength)
               /\ out.confidence_level = input_data.strength
               /\ out.escape_window = input_data.window
               /\ out.irreversibility = input_data.irreversibility
               /\ out.mechanism = input_data.trap_type
               /\ Present(out.lock_in_dynamics)

\* C14 witness: a Temporal Lock-in input of medium strength with the empty
\* window was explained: two actions, confidence medium, the empty window.
C14_Witness ==
    /\ pc = "explained_v2"
    /\ input_data.trap_type = "Temporal Lock-in"
    /\ input_data.strength = "medium"
    /\ input_data.window = EmptyDict
    /\ explain_v2_result.outcome = "return"
    /\ Len(explain_v2_result.value.user_actions) = 2
    /\ explain_v2_result.value.escape_window = EmptyDict

---------------------------------------------------------------------------
(* Risk chains v2: RiskChainBuilder *)

ChainStep(step_id, description, severity, order) ==
    [step_id |-> step_id, description |-> description,
     severity |-> severity, order |-> order]

RiskChain(chain_id, trap_id, steps, final_outcome) ==
    [chain_id |-> chain_id, trap_id |-> trap_id,
     steps |-> steps, final_outcome |-> final_outcome]

\* "chain_" + uuid4().hex[:8]: a random identifier
ChainIds == {"chain_0a1b2c3d", "chain_4e5f6a7b"}

_build_temporal_lock_chain(trap, chain_id) ==
    RiskChain(chain_id, trap.trap_id,
        << ChainStep("step_1", "<yong><hu><cuo><guo><cao><zuo><chuang><kou>", "low", 1),
           ChainStep("step_2", "<zi><dong><xu><yue><sheng><xiao>", "medium", 2),
           ChainStep("step_3", "<tui><chu><cheng><ben><shang><sheng>/<he><tong><suo><si>", "high", 3) >>,
        "<yong><hu><shi><qu><di><cheng><ben><tui><chu><lu><jing>")

_build_asymmetric_power_chain(trap, chain_id) ==
    RiskChain(chain_id, trap.trap_id,
        << ChainStep("step_1", "<he><tong><chu><shi><zhuang><tai><kan><si><an><quan>", "low", 1),
           ChainStep("step_2", "<dui><fang><dan><fang><mian><tiao><zheng><tiao><kuan>", "medium", 2),
           ChainStep("step_3", "<zheng><yi><fa><sheng><shi><yong><hu><chu><yu><lie><shi>", "high", 3) >>,
        "<yong><hu><zai><wei><lai><zheng><yi><zhong><chu><yu><xi><tong><xing><lie><shi><di><wei>")

_build_exit_barrier_chain(trap, chain_id) ==
    RiskChain(chain_id, trap.trap_id,
        << ChainStep("step_1", "<he><tong><chu><shi><jie><duan><kan><si><ke><zi><you><tui><chu>", "low", 1),
           ChainStep("step_2", "<yong><hu><chang><shi><tui><chu><shi><chu><fa><gao><e><xian><zhi><huo><fei><yong>", "medium", 2),
           ChainStep("step_3", "<yong><hu><bei><po><ji><xu><lv><yue><huo><cheng><dan><xian><zhu><sun><shi>", "high", 3) >>,
        "<yong><hu><zai><chang><shi><tui><chu><he><tong><shi><zao><yu><xi><tong><xing><tui><chu><zhang><ai>,"
            \o "<dao><zhi><bei><po><cheng><dan><xian><zhu><jing><ji><sun><shi>")

_build_interpretation_ambiguity_chain(trap, chain_id) ==
    RiskChain(chain_id, trap.trap_id,
        << ChainStep("step_1", "<he><tong><tiao><kuan><zai><qian><shu><shi><kan><si><ling><huo><huo><wu><ming><xian><feng><xian>", "low", 1),
           ChainStep("step_2", "<shi><ji><zhi><xing><zhong><tiao><kuan><han><yi><bei><dan><fang><mian><jie><shi>", "medium", 2),
           ChainStep("step_3", "<zheng><yi><fa><sheng><shi><yong><hu><yin><jie><shi><quan><lie><shi><cheng><dan><bu><li><hou><guo>", "high", 3) >>,
        "<yong><hu><yin><he><tong><tiao><kuan><jie><shi><quan><bu><dui><deng>,"
            \o "<zai><shi><ji><zhi><xing><huo><zheng><yi><zhong><chu><yu><xi><tong><xing><bu><li><di><wei>")

\* mutant: only the chain the docstring of build_chains describes is built
BuildChain_TemporalLockOnly(trap, chain_id) ==
    IF trap.trap_type = "temporal_lock"
    THEN <<_build_temporal_lock_chain(trap, chain_id)>>
    ELSE <<>>

\* the body of the `for trap in traps` loop: the chains it appends (none or one)
BuildChain(trap, chain_id) ==
    IF trap.trap_type = "temporal_lock"
    THEN <<_build_temporal_lock_chain(trap, chain_id)>>
    ELSE IF trap.trap_type = "asymmetric_power"
    THEN <<_build_asymmetric_power_chain(trap, chain_id)>>
    ELSE IF trap.trap_type = "exit_barrier"
    THEN <<_build_exit_barrier_chain(trap, chain_id)>>
    ELSE IF trap.trap_type = "interpretation_ambiguity"
    THEN <<_build_interpretation_ambiguity_chain(trap, chain_id)>>
    ELSE <<>>

\* RiskChainBuilder.build_chains; ids[k] is the uuid drawn for the k-th trap
RECURSIVE build_chains(_, _)
build_chains(ts, ids) ==
    IF ts = <<>> THEN <<>>
    ELSE BuildChain(Head(ts), Head(ids)) \o build_chains(Tail(ts), Tail(ids))

---------------------------------------------------------------------------
(* Specification of the trap engine followed by the chain builder *)

\* the engine is constructed on a list of categorical risk signals
InitChains ==
    /\ pc = "detect_traps"
    /\ risk_signals \in SeqsUpTo({RiskSignal(t) : t \in RiskSignalTypes}, MaxChainSignals)
    /\ traps = <<>>
    /\ chains = <<>>
    /\ IdleAnalysis /\ IdleGateway /\ IdleExplain
    /\ IdleExplainV2 /\ IdleBuilder
    /\ IdleIngestion /\ IdleExtraction

BuildChains ==
    /\ pc = "traps_detected"
    /\ \E ids \in [1..Len(traps) -> ChainIds] :
            chains' = build_chains(traps, ids)
    /\ pc' = "chains_built"
    /\ UNCHANGED <<trap_vars, analysis_vars, gateway_vars, explain_vars,
                   explain_v2_vars, builder_vars,
                   ingestion_vars, extraction_vars>>

NextChains == DetectTraps \/ BuildChains

SpecChains == InitChains /\ [][NextChains]_vars

---------------------------------------------------------------------------
(* Properties of the chain builder *)

\* C15: for every trap list produced by detect_traps, build_chains returns
\* exactly one RiskChain per trap, in trap order, with the trap's trap_id, and
\* each chain has exactly 3 steps with severities (low, medium, high) and
\* orders (1, 2, 3), whatever the trap's severity or related_signals are.
C15_OneChainPerTrapFixedSteps ==
    pc = "chains_built" =>
        /\ Len(chains) = Len(traps)
        /\ \A i \in 1..Len(chains) :
            /\ chains[i].trap_id = traps[i].trap_id
            /\ Len(chains[i].steps) = 3
            /\ [k \in 1..3 |-> chains[i].steps[k].severity] = <<"low", "medium", "high">>
            /\ [k \in 1..3 |-> chains[i].steps[k].order] = <<1, 2, 3>>

\* C15 witness: chains were built for traps of different types, one of
\* severity high and one of severity medium, with different trap ids.
C15_Witness ==
    /\ pc = "chains_built"
    /\ Len(traps) >= 2
    /\ Len(chains) = Len(traps)
    /\ \E i, j \in 1..Len(traps) :
        /\ traps[i].severity = "high" /\ traps[j].severity = "medium"
        /\ traps[i].trap_id # traps[j].trap_id
        /\ chains[i].trap_id # chains[j].trap_id

---------------------------------------------------------------------------
(* Specification of the structural risk-field builder: build is applied to *)
(* a list of RiskItems and a list of ExtractedSignals                      *)

RiskItem(risk_code, severity, evidence_rules, description) ==
    [risk_code |-> risk_code, severity |-> severity,
     evidence_rules |-> evidence_rules, description |-> description]

\* RiskItems as analyze or a caller hands them over: the two risk codes the
\* detectors look for and two they do not
BuildItemPool ==
    { RiskItem("LIABILITY_LIMITATION", "medium", <<"keyword_007">>,
               "Limitation or exclusion of liability detected"),
      RiskItem("EARLY_TERMINATION_PENALTY", "high", <<"phrase_020">>,
               "Early termination penalty detected"),
      RiskItem("AUTO_RENEWAL", "medium", <<"keyword_001">>,
               "Automatic renewal related terms detected"),
      RiskItem("UNILATERAL_CHANGE", "high", <<"structural_002">>,
               "One party may change contract terms unilaterally") }

\* matched texts: with a keyword of an axis, with a negation phrase, in mixed
\* letter case, and with none of the keywords
BuildSignalPool ==
    { ExtractedSignal("keyword_010", "keyword", "Tenant is Responsible For Maintenance", "block_0"),
      ExtractedSignal("phrase_011", "phrase", "Landlord shall not be responsible for repair", "block_1"),
      ExtractedSignal("phrase_012", "phrase", "Landlord is NOT RESPONSIBLE FOR plumbing", "block_2"),
      ExtractedSignal("phrase_013", "phrase", "Landlord shall Not Be Liable", "block_1"),
      ExtractedSignal("phrase_001", "phrase", "This lease shall Automatically Renew", "block_0"),
      ExtractedSignal("phrase_020", "phrase", "early termination penalty", "block_2"),
      ExtractedSignal("keyword_001", "keyword", "lease", "block_1"),
      ExtractedSignal("keyword_007", "keyword", "liability", "block_0") }

InitBuilder ==
    /\ pc = "build"
    /\ build_risk_items \in SeqsUpTo(BuildItemPool, MaxBuildItems)
    /\ build_signals \in SeqsUpTo(BuildSignalPool, MaxBuildSignals)
    /\ risk_fields = <<>>
    /\ IdleAnalysis /\ IdleTraps /\ IdleGateway /\ IdleExplain
    /\ IdleChains /\ IdleExplainV2
    /\ IdleIngestion /\ IdleExtraction

Build ==
    /\ pc = "build"
    /\ risk_fields' = build(build_risk_items, build_signals)
    /\ pc' = "built"
    /\ UNCHANGED <<build_risk_items, build_signals, analysis_vars, trap_vars,
                   gateway_vars, explain_vars, chain_vars, explain_v2_vars,
                   ingestion_vars, extraction_vars>>

NextBuilder == Build

SpecBuilder == InitBuilder /\ [][NextBuilder]_vars

---------------------------------------------------------------------------
(* Properties of the structural risk-field builder *)

FieldsOfAxis(axis) == {i \in 1..Len(risk_fields) : risk_fields[i].axis = axis}

BuildCodes == {build_risk_items[i].risk_code : i \in 1..Len(build_risk_items)}

BuildTexts == {build_signals[i].hit_text : i \in 1..Len(build_signals)}

\* the matched texts that hold a maintenance/repair keyword and no negation
\* phrase (in whatever letter case)
PlainResponsibilityTexts == {"Tenant is Responsible For Maintenance"}

\* the matched texts that hold a negation phrase
NegatedTexts ==
    {"Landlord shall not be responsible for repair",
     "Landlord is NOT RESPONSIBLE FOR plumbing"}

\* the matched texts that hold "not be liable" or "not be responsible for"
LiabilityTexts ==
    {"Landlord shall not be responsible for repair", "Landlord shall Not Be Liable"}

\* the matched texts with auto-renewal phrasing
AutoRenewalTexts == {"This lease shall Automatically Renew"}

AxisCodes == {"LIABILITY_LIMITATION", "EARLY_TERMINATION_PENALTY"}

\* the matched texts that fire no axis
UnrelatedTexts == {"lease", "liability", "early termination penalty"}

KeywordFreeTexts == {"lease", "liability"}

\* the signals that gave a RiskItem of the given risk code its evidence
SignalsOfCode(risk_code) ==
    {i \in 1..Len(build_signals) :
        \E k \in 1..Len(build_risk_items) :
            /\ build_risk_items[k].risk_code = risk_code
            /\ build_signals[i].rule_id \in SeqToSet(build_risk_items[k].evidence_rules)}

\* build was given only AUTO_RENEWAL and LIABILITY_LIMITATION RiskItems, at
\* least one, each with a signal that gave it its evidence, and the texts of
\* the signals hold no axis keyword
RiskCodeOnlyInput ==
    /\ BuildCodes # {}
    /\ BuildCodes \subseteq {"AUTO_RENEWAL", "LIABILITY_LIMITATION"}
    /\ \A risk_code \in BuildCodes : SignalsOfCode(risk_code) # {}
    /\ BuildTexts \subseteq KeywordFreeTexts

Axes == {"responsibility", "liability", "temporal"}

\* C20: build returns at most one field per axis, so at most 3 fields, and
\* every field has the fixed (intensity, compounding) pair of its axis:
\* responsibility (high, true), liability (high, true), temporal (medium,
\* false).
C20_OneFieldPerAxisFixedPair ==
    pc = "built" =>
        /\ Len(risk_fields) <= 3
        /\ \A axis \in Axes : Cardinality(FieldsOfAxis(axis)) <= 1
        /\ \A f \in 1..Len(risk_fields) :
            /\ risk_fields[f].axis \in Axes
            /\ <<risk_fields[f].intensity, risk_fields[f].compounding>> =
                    CASE risk_fields[f].axis = "responsibility" -> <<"high", TRUE>>
                      [] risk_fields[f].axis = "liability" -> <<"high", TRUE>>
                      [] risk_fields[f].axis = "temporal" -> <<"medium", FALSE>>

\* C20 witness: every trigger path of every axis held at once (the liability
\* risk code and a liability phrase, the termination risk code and a renewal
\* phrase) and three fields were returned.
C20_Witness ==
    /\ pc = "built"
    /\ BuildCodes = AxisCodes
    /\ BuildTexts \cap LiabilityTexts # {}
    /\ BuildTexts \cap PlainResponsibilityTexts # {}
    /\ Len(risk_fields) = 3

\* the matched texts whose signal fires the given axis
TriggerTexts(axis) ==
    CASE axis = "responsibility" -> PlainResponsibilityTexts
      [] axis = "liability" -> LiabilityTexts
      [] axis = "temporal" -> AutoRenewalTexts

\* the signals that contributed to firing the given axis
ContributingSignals(axis) ==
    {i \in 1..Len(build_signals) : build_signals[i].hit_text \in TriggerTexts(axis)}

\* C21: every RiskField returned by build has a non-empty source_blocks that
\* is the set of block_ids of the signals whose matched text fired its axis;
\* a signal kept out of the trigger (negation guard) adds no block_id.
C21_SourceBlocksOfContributingSignals ==
    pc = "built" =>
        \A f \in 1..Len(risk_fields) :
            /\ risk_fields[f].source_blocks # {}
            /\ risk_fields[f].source_blocks =
                    {build_signals[i].block_id :
                        i \in ContributingSignals(risk_fields[f].axis)}

---------------------------------------------------------------------------
(* Properties of the analysis stage: unknown rule_ids *)

\* the rule_ids of the signal pool that the risk-mapping table does not list
UnknownRuleIds == {"unknown_rule"}

\* the rule_ids, in signal order, of the signals mapped to the given risk code
RuleIdsOfCode(signals, risk_code) ==
    LET MapsToCode(s) ==
            /\ s.rule_id \notin UnknownRuleIds
            /\ risk_mappings[s.rule_id].risk_code = risk_code
        mapped == SelectSeq(signals, MapsToCode)
    IN  [i \in 1..Len(mapped) |-> mapped[i].rule_id]

\* C22: when no signal has a rule_id of the risk-mapping table (the empty
\* list included) analyze returns risk_level "low", no RiskItem and no
\* risk_flag; a signal with an unknown rule_id next to known ones adds no
\* RiskItem, no flag and no evidence entry.
C22_UnknownRuleIdsIgnored ==
    pc = "analyzed" =>
        LET items == analysis_output.risk_items
            flags == analysis_output.analysis_summary.risk_flags
        IN  /\ (\A i \in 1..Len(extracted_signals) :
                    extracted_signals[i].rule_id \in UnknownRuleIds)
                => /\ analysis_output.analysis_summary.risk_level = "low"
                   /\ items = <<>>
                   /\ flags = <<>>
            /\ flags = [i \in 1..Len(items) |-> items[i].risk_code]
            /\ \A i \in 1..Len(items) :
                /\ items[i].evidence_rules # <<>>
                /\ items[i].evidence_rules
                        = RuleIdsOfCode(extracted_signals, items[i].risk_code)
                /\ \A j \in 1..Len(items) : items[j].risk_code = items[i].risk_code => j = i

\* C22 witness: analyze has run on a list that holds the unknown rule_id
\* between two known ones and returned RiskItems for the known ones.
C22_Witness ==
    /\ pc = "analyzed"
    /\ Len(extracted_signals) = 3
    /\ extracted_signals[2].rule_id \in UnknownRuleIds
    /\ extracted_signals[1].rule_id \notin UnknownRuleIds
    /\ extracted_signals[3].rule_id \notin UnknownRuleIds
    /\ Len(analysis_output.risk_items) = 2

---------------------------------------------------------------------------
(* Explanation v1 (structural risk fields): ExplainV1Service *)

\* RiskAxis
RiskAxis == {"temporal", "responsibility", "liability"}

\* The v1 template table as _load_templates accepts it: every axis of RiskAxis
\* with the intensities low, medium and high, each with title, message and
\* user_action.
v1_templates ==
    [axis \in RiskAxis |->
        [intensity \in Levels |->
            [title |-> axis \o " " \o intensity \o " title",
             message |-> axis \o " " \o intensity \o " message",
             user_action |-> axis \o " " \o intensity \o " action"]]]

\* lines 121-128: a template exists for the field's axis and intensity
HasV1Template(risk_field) ==
    /\ risk_field.axis \in DOMAIN v1_templates
    /\ risk_field.intensity \in DOMAIN v1_templates[risk_field.axis]

\* lines 130-142
V1Explanation(risk_field, template) ==
    [axis |-> risk_field.axis, intensity |-> risk_field.intensity,
     affected_party |-> risk_field.affected_party,
     title |-> template.title, message |-> template.message,
     user_action |-> template.user_action,
     compounding |-> risk_field.compounding,
     source_blocks |-> risk_field.source_blocks]

\* mutant: a field without a template is explained with the medium template
\* of the temporal axis
explain_v1_DefaultEntry(fields) ==
    [risk_field_explanations |->
        [i \in 1..Len(fields) |->
            V1Explanation(fields[i],
                IF HasV1Template(fields[i])
                THEN v1_templates[fields[i].axis][fields[i].intensity]
                ELSE v1_templates["temporal"]["medium"])]]

\* ExplainV1Service.explain
explain_v1(fields) ==
    IF fields = <<>> THEN [risk_field_explanations |-> <<>>]
    ELSE LET explained == SelectSeq(fields, HasV1Template)
         IN  [risk_field_explanations |->
                [i \in 1..Len(explained) |->
                    V1Explanation(explained[i],
                        v1_templates[explained[i].axis][explained[i].intensity])]]

---------------------------------------------------------------------------
(* Specification of the two template-driven explanation services: explain  *)
(* (v0) is applied to an AnalysisOutput, then explain (v1) to a list of    *)
(* RiskFields                                                               *)

MaxExplainFields == 2

\* RiskFields handed to ExplainV1Service.explain: the three the builder emits
\* and fields whose intensity string has no template
ExplainFieldPool ==
    { RiskField("temporal", "medium", FALSE, "auto renewal", {"block_0", "block_1"}),
      RiskField("responsibility", "high", TRUE, "maintenance moved to tenant", {"block_2"}),
      RiskField("liability", "low", TRUE, "liability excluded", {}),
      RiskField("temporal", "critical", FALSE, "auto renewal", {"block_0"}),
      RiskField("liability", "", TRUE, "liability excluded", {"block_1"}) }

InitExplainTiers ==
    /\ pc = "explain"
    /\ \E n \in 0..MaxRiskItems :
        \E codes \in [1..n -> ExplainedCodes], sev \in Levels :
            explain_inputs = <<AnalysisOutputOf(codes, [i \in 1..n |-> sev], "low"),
                               AnalysisOutputOf(codes, [i \in 1..n |-> sev], "low")>>
    /\ explain_outputs = <<>>
    /\ risk_fields \in SeqsUpTo(ExplainFieldPool, MaxExplainFields)
    /\ build_risk_items = <<>> /\ build_signals = <<>>
    /\ IdleAnalysis /\ IdleTraps /\ IdleGateway
    /\ IdleChains /\ IdleExplainV2
    /\ IdleIngestion /\ IdleExtraction

ExplainV1 ==
    /\ pc = "explained"
    /\ explain_v1_output' = <<explain_v1(risk_fields)>>
    /\ pc' = "explained_v1"
    /\ UNCHANGED <<explain_v0_output, explain_v2_output, gateway_output,
                   analysis_vars, trap_vars, explain_vars,
                   chain_vars, explain_v2_vars, builder_vars,
                   ingestion_vars, extraction_vars>>

NextExplainTiers == Explain \/ ExplainV1

SpecExplainTiers == InitExplainTiers /\ [][NextExplainTiers]_vars

---------------------------------------------------------------------------
(* Properties of the template lookups *)

\* the risk codes of the inputs that have a v0 template
TemplatedCodes == {"AUTO_RENEWAL", "LIMITED_NOTICE"}

\* the intensities that have a v1 template
TemplatedIntensities == {"low", "medium", "high"}

\* C23: explain (v0) returns exactly one block per input RiskItem whose
\* risk_code has a template, in input order, and explain (v1) exactly one
\* explanation per input RiskField whose (axis, intensity) has a template, in
\* input order; an item without a template gives no entry and no default
\* entry, and an empty input gives an empty output.
C23_TemplateLookupsSkipGracefully ==
    /\ pc \in {"explained", "explained_v1"} =>
        LET items == explain_inputs[1].risk_items
            blocks == explain_outputs[1].explanation_blocks
            kept == InOrder({i \in 1..Len(items) :
                                items[i].risk_code \in TemplatedCodes})
        IN  /\ Len(blocks) = Len(kept)
            /\ \A k \in 1..Len(kept) :
                /\ blocks[k].risk_code = items[kept[k]].risk_code
                /\ blocks[k].title = templates.risk_explanations[items[kept[k]].risk_code].title
            /\ items = <<>> => blocks = <<>>
    /\ pc = "explained_v1" =>
        LET exps == explain_v1_output[1].risk_field_explanations
            kept == InOrder({i \in 1..Len(risk_fields) :
                                risk_fields[i].intensity \in TemplatedIntensities})
        IN  /\ Len(exps) = Len(kept)
            /\ \A k \in 1..Len(kept) :
                /\ exps[k].axis = risk_fields[kept[k]].axis
                /\ exps[k].intensity = risk_fields[kept[k]].intensity
                /\ exps[k].source_blocks = risk_fields[kept[k]].source_blocks
                /\ exps[k].title = v1_templates[exps[k].axis][exps[k].intensity].title
            /\ risk_fields = <<>> => exps = <<>>

\* C23 witness: both services have run on inputs whose first entry has no
\* template and whose second has one; each returned one entry, for the second.
C23_Witness ==
    /\ pc = "explained_v1"
    /\ Len(explain_inputs[1].risk_items) = 2
    /\ explain_inputs[1].risk_items[1].risk_code \notin TemplatedCodes
    /\ explain_inputs[1].risk_items[2].risk_code \in TemplatedCodes
    /\ Len(explain_outputs[1].explanation_blocks) = 1
    /\ Len(risk_fields) = 2
    /\ risk_fields[1].intensity \notin TemplatedIntensities
    /\ risk_fields[2].intensity \in TemplatedIntensities
    /\ Len(explain_v1_output[1].risk_field_explanations) = 1

---------------------------------------------------------------------------
(* Properties of the gateway overview *)

TierIds == {"v0", "v1", "v2"}

TierSupplied(tier) ==
    CASE tier = "v0" -> Present(explain_v0_output)
      [] tier = "v1" -> Present(explain_v1_output)
      [] tier = "v2" -> Present(explain_v2_output)

---------------------------------------------------------------------------
(* Ingestion: IngestionService *)

\* the characters str.strip() and str.split() take for whitespace
Whitespace == {" ", "\t", "\n"}

CharAt(text, i) == SubSeq(text, i, i)

\* str.strip()
RECURSIVE strip(_)
strip(text) ==
    IF Len(text) = 0 THEN text
    ELSE IF CharAt(text, 1) \in Whitespace THEN strip(SubSeq(text, 2, Len(text)))
    ELSE IF CharAt(text, Len(text)) \in Whitespace THEN strip(SubSeq(text, 1, Len(text) - 1))
    ELSE text

\* str.split(sep) for a one-character separator: the pieces between the
\* separators, the empty ones included; `piece` is the piece being read
RECURSIVE SplitAt(_, _, _)
SplitAt(text, sep, piece) ==
    IF Len(text) = 0 THEN <<piece>>
    ELSE IF CharAt(text, 1) = sep
    THEN <<piece>> \o SplitAt(SubSeq(text, 2, Len(text)), sep, "")
    ELSE SplitAt(SubSeq(text, 2, Len(text)), sep, piece \o CharAt(text, 1))

\* str.split(): the maximal runs of non-whitespace characters
RECURSIVE SplitWords(_, _)
SplitWords(text, word) ==
    IF Len(text) = 0 THEN (IF Len(word) = 0 THEN <<>> ELSE <<word>>)
    ELSE IF CharAt(text, 1) \in Whitespace
    THEN (IF Len(word) = 0 THEN <<>> ELSE <<word>>)
            \o SplitWords(SubSeq(text, 2, Len(text)), "")
    ELSE SplitWords(SubSeq(text, 2, Len(text)), word \o CharAt(text, 1))

\* sep.join(pieces)
RECURSIVE Join(_, _)
Join(pieces, sep) ==
    IF pieces = <<>> THEN ""
    ELSE IF Len(pieces) = 1 THEN pieces[1]
    ELSE pieces[1] \o sep \o Join(Tail(pieces), sep)

\* mutant: only the empty string is rejected
_validate_input_EmptyOnly(text) == Len(text) = 0

\* _validate_input: TRUE when it raises
_validate_input(text) == Len(text) = 0 \/ Len(strip(text)) = 0

_normalize_text(text) ==
    LET lines == SplitAt(text, "\n", "")
        collapsed == [i \in 1..Len(lines) |-> Join(SplitWords(lines[i], ""), " ")]
        NonEmpty(line) == Len(line) > 0
    IN  Join(SelectSeq(collapsed, NonEmpty), "\n")

_count_words(text) ==
    IF Len(strip(text)) = 0 THEN 0 ELSE Len(SplitWords(text, ""))

TextBlock(block_id, order, normalized_text, original_length, normalized_length, line_count, word_count) ==
    [block_id |-> block_id, order |-> order, normalized_text |-> normalized_text,
     original_length |-> original_length, normalized_length |-> normalized_length,
     line_count |-> line_count, word_count |-> word_count]

_create_text_blocks(text) ==
    LET normalized_text == _normalize_text(text)
    IN  <<TextBlock("block_0", 0, normalized_text, Len(text), Len(normalized_text),
                    IF Len(normalized_text) > 0
                    THEN Len(SplitAt(normalized_text, "\n", "")) ELSE 1,
                    _count_words(normalized_text))>>

\* IngestionService.ingest for IngestionInput(text=text), at the given time
ingest(text, utcnow) ==
    IF _validate_input(text)
    THEN Raised("ValueError", "Text content cannot be empty")
    ELSE LET text_blocks == _create_text_blocks(text)
         IN  Returned([text_blocks |-> text_blocks,
                       source_id |-> <<>>,
                       ingestion_timestamp |-> utcnow,
                       total_characters |-> text_blocks[1].normalized_length,
                       total_words |-> text_blocks[1].word_count,
                       metadata |-> [has_source_metadata |-> FALSE,
                                     has_source_id |-> FALSE,
                                     block_count |-> Len(text_blocks)]])

---------------------------------------------------------------------------
(* Specification of the ingestion stage *)

MaxTextLen == 4

\* the characters of the input texts: a letter and the whitespace characters
TextChars == {"a", " ", "\t", "\n"}

RECURSIVE TextsUpTo(_)
TextsUpTo(n) ==
    IF n = 0 THEN {""}
    ELSE LET shorter == TextsUpTo(n - 1)
         IN  shorter \cup {t \o c : t \in shorter, c \in TextChars}

\* datetime.utcnow() of two calls
Timestamps == {1, 2}

InitIngestion ==
    /\ pc = "ingest"
    /\ contract_text \in TextsUpTo(MaxTextLen)
    /\ ingestion_result = <<>>
    /\ IdleAnalysis /\ IdleTraps /\ IdleGateway /\ IdleExplain
    /\ IdleChains /\ IdleExplainV2 /\ IdleBuilder
    /\ IdleExtraction

Ingest ==
    /\ pc = "ingest"
    /\ \E utcnow \in Timestamps : ingestion_result' = ingest(contract_text, utcnow)
    /\ pc' = "ingested"
    /\ UNCHANGED <<contract_text, analysis_vars, trap_vars, gateway_vars, explain_vars,
                   chain_vars, explain_v2_vars, builder_vars, extraction_vars>>

NextIngestion == Ingest

SpecIngestion == InitIngestion /\ [][NextIngestion]_vars

---------------------------------------------------------------------------
(* Properties of the ingestion stage *)

\* the text is empty or holds whitespace characters only
Blank(text) == \A i \in 1..Len(text) : CharAt(text, i) \in {" ", "\t", "\n"}

\* C25: ingest rejects every text that is empty or whitespace only by raising
\* its input-validation error, no text block being created, and accepts every
\* other text, returning at least one text block.
C25_RejectsBlankAcceptsOther ==
    pc = "ingested" =>
        IF Blank(contract_text)
        THEN /\ ingestion_result.outcome = "raise"
             /\ ingestion_result.error = "ValueError"
             /\ "value" \notin DOMAIN ingestion_result
        ELSE /\ ingestion_result.outcome = "return"
             /\ Len(ingestion_result.value.text_blocks) >= 1
             /\ \A b \in 1..Len(ingestion_result.value.text_blocks) :
                    /\ Len(ingestion_result.value.text_blocks[b].normalized_text) > 0
                    /\ ~ Blank(ingestion_result.value.text_blocks[b].normalized_text)

\* C25 witness: ingest has raised on a text of several whitespace characters.
C25_Witness ==
    /\ pc = "ingested"
    /\ Len(contract_text) >= 3
    /\ Blank(contract_text)
    /\ ingestion_result.outcome = "raise"

---------------------------------------------------------------------------
(* Extraction: ExtractionService *)

RuleTypes == {"keyword", "phrase", "structural"}

\* dict.get(key, default)
Get(dict, key, default) == IF key \in DOMAIN dict THEN dict[key] ELSE default

\* the first rule entry _load_rules rejects, 0 if it accepts them all
FirstInvalidRule(rules) ==
    LET invalid == {i \in 1..Len(rules) :
                        \/ "rule_id" \notin DOMAIN rules[i]
                        \/ "rule_type" \notin DOMAIN rules[i]
                        \/ rules[i]["rule_type"] \notin RuleTypes}
    IN  IF invalid = {} THEN 0
        ELSE CHOOSE i \in invalid : \A j \in invalid : i <= j

\* _load_rules on the rules file: `file` is <<>> when the path does not
\* exist, else the one content of the file, which json.load decodes or not.
\* The service is built with self.rules set, or the constructor raises.
_load_rules(file) ==
    IF file = <<>> THEN Raised("FileNotFoundError", "Rules file not found")
    ELSE IF ~ file[1].decoded
    THEN Raised("ValueError", "Invalid JSON in rules file")
    ELSE IF "rules" \notin DOMAIN file[1].data
    THEN Raised("ValueError", "Rules file must contain 'rules' array")
    ELSE LET rules == file[1].data["rules"]
             bad == FirstInvalidRule(rules)
         IN  IF bad = 0 THEN Returned([rules |-> rules])
             ELSE IF "rule_id" \notin DOMAIN rules[bad] \/ "rule_type" \notin DOMAIN rules[bad]
             THEN Raised("ValueError", "Each rule must have 'rule_id' and 'rule_type'")
             ELSE Raised("ValueError", "Invalid rule_type: " \o rules[bad]["rule_type"]
                                        \o ". Must be keyword, phrase, or structural")

\* str.find from every start: the positions (from 0) at which `needle` occurs
\* in `text`, in increasing order, overlapping occurrences included
Occurrences(needle, text) ==
    InOrder({p \in 0..(Len(text) - Len(needle)) :
                SubSeq(text, p + 1, p + Len(needle)) = needle})

\* the loop of _match_keywords and of _match_phrases over the listed terms
RECURSIVE MatchTerms(_, _, _, _)
MatchTerms(terms, text, case_sensitive, metadata_key) ==
    IF terms = <<>> THEN <<>>
    ELSE LET term == Head(terms)
             search_text == IF case_sensitive THEN text ELSE lower(text)
             search_term == IF case_sensitive THEN term ELSE lower(term)
             positions == Occurrences(search_term, search_text)
         IN  [i \in 1..Len(positions) |->
                [text |-> term, position |-> positions[i],
                 metadata |-> [k \in {metadata_key} |-> term]]]
             \o MatchTerms(Tail(terms), text, case_sensitive, metadata_key)

_match_keywords(rule, text) ==
    MatchTerms(Get(rule, "keywords", <<>>), text,
               Get(rule, "case_sensitive", FALSE), "matched_keyword")

_match_phrases(rule, text) ==
    MatchTerms(Get(rule, "phrases", <<>>), text,
               Get(rule, "case_sensitive", FALSE), "matched_phrase")

Digits == {"0", "1", "2", "3", "4", "5", "6", "7", "8", "9"}

\* the characters the regular expressions take for word characters (\w)
WordChars ==
    Digits \cup {"_"}
        \cup {SubSeq(UpperLetters, i, i) : i \in 1..Len(UpperLetters)}
        \cup {SubSeq(LowerLetters, i, i) : i \in 1..Len(LowerLetters)}

IsWordChar(text, i) == i \in 1..Len(text) /\ CharAt(text, i) \in WordChars

AllDigits(text, from, n) ==
    \A k \in 0..(n - 1) : (from + k) \in 1..Len(text) /\ CharAt(text, from + k) \in Digits

IsDateSeparator(text, i) == i \in 1..Len(text) /\ CharAt(text, i) \in {"/", "-"}

\* \b\d{1,2}[/-]\d{1,2}[/-]\d{2,4}\b tried at index i: the index after the
\* match, 0 when there is none.  The quantifiers are greedy, so the longest
\* first group wins, then the longest second group, then the longest third.
DateMatchEnd(text, i) ==
    LET fits == {abc \in (1..2) \X (1..2) \X (2..4) :
                    /\ ~ IsWordChar(text, i - 1)
                    /\ AllDigits(text, i, abc[1])
                    /\ IsDateSeparator(text, i + abc[1])
                    /\ AllDigits(text, i + abc[1] + 1, abc[2])
                    /\ IsDateSeparator(text, i + abc[1] + 1 + abc[2])
                    /\ AllDigits(text, i + abc[1] + abc[2] + 2, abc[3])
                    /\ ~ IsWordChar(text, i + abc[1] + abc[2] + 2 + abc[3])}
        Before(x, y) ==
            \/ x[1] > y[1]
            \/ x[1] = y[1] /\ x[2] > y[2]
            \/ x[1] = y[1] /\ x[2] = y[2] /\ x[3] >= y[3]
    IN  IF fits = {} THEN 0
        ELSE LET first == CHOOSE x \in fits : \A y \in fits : Before(x, y)
             IN  i + first[1] + first[2] + 2 + first[3]

\* (?:,\d{3})* from index p: the index after the last group
RECURSIVE ThousandsEnd(_, _)
ThousandsEnd(text, p) ==
    IF p \in 1..Len(text) /\ CharAt(text, p) = "," /\ AllDigits(text, p + 1, 3)
    THEN ThousandsEnd(text, p + 4)
    ELSE p

\* \$\d{1,3}(?:,\d{3})*(?:\.\d{2})? tried at index i: the index after the
\* match, 0 when there is none
CurrencyMatchEnd(text, i) ==
    IF ~ (i \in 1..Len(text) /\ CharAt(text, i) = "$" /\ AllDigits(text, i + 1, 1))
    THEN 0
    ELSE LET n == CHOOSE m \in 1..3 :
                    /\ AllDigits(text, i + 1, m)
                    /\ (m = 3 \/ ~ AllDigits(text, i + 1, m + 1))
             p == ThousandsEnd(text, i + 1 + n)
         IN  IF p \in 1..Len(text) /\ CharAt(text, p) = "." /\ AllDigits(text, p + 1, 2)
             THEN p + 3
             ELSE p

\* _match_regex_pattern: re.finditer, the matches from left to right, each
\* search starting where the match before ended
RECURSIVE _match_regex_pattern(_, _, _)
_match_regex_pattern(pattern_name, text, from) ==
    IF from > Len(text) THEN <<>>
    ELSE LET after == IF pattern_name = "date" THEN DateMatchEnd(text, from)
                      ELSE CurrencyMatchEnd(text, from)
         IN  IF after = 0 THEN _match_regex_pattern(pattern_name, text, from + 1)
             ELSE <<[text |-> SubSeq(text, from, after - 1), position |-> from - 1,
                     metadata |-> [pattern_type |-> pattern_name]]>>
                  \o _match_regex_pattern(pattern_name, text, after)

StartsWith(text, prefix) ==
    Len(prefix) <= Len(text) /\ SubSeq(text, 1, Len(prefix)) = prefix

RECURSIVE SumLengths(_, _)
SumLengths(lines, n) ==
    IF n = 0 THEN 0 ELSE Len(lines[n]) + 1 + SumLengths(lines, n - 1)

\* the line_start branch of _match_structural
LineStartMatches(label_prefixes, text) ==
    LET lines == SplitAt(text, "\n", "")
        Matching(line_idx) ==
            {k \in 1..Len(label_prefixes) :
                StartsWith(strip(lines[line_idx]), label_prefixes[k])}
        hits == InOrder({line_idx \in 1..Len(lines) : Matching(line_idx) # {}})
    IN  [h \in 1..Len(hits) |->
            LET first == CHOOSE k \in Matching(hits[h]) :
                            \A j \in Matching(hits[h]) : k <= j
            IN  [text |-> strip(lines[hits[h]]),
                 position |-> SumLengths(lines, hits[h] - 1),
                 metadata |-> [matched_prefix |-> label_prefixes[first],
                               line_number |-> hits[h]]]]

_match_structural(rule, text) ==
    LET pattern_type == Get(rule, "pattern", "")
    IN  IF pattern_type = "date" THEN _match_regex_pattern("date", text, 1)
        ELSE IF pattern_type = "currency" THEN _match_regex_pattern("currency", text, 1)
        ELSE IF pattern_type = "line_start"
        THEN LineStartMatches(Get(rule, "label_prefixes", <<>>), text)
        ELSE <<>>

ExtractionCandidate(rule_id, rule_type, extracted_text, block_id, match_position, metadata) ==
    [rule_id |-> rule_id, rule_type |-> rule_type, extracted_text |-> extracted_text,
     block_id |-> block_id, match_position |-> match_position, confidence |-> 1,
     metadata |-> metadata]

\* the rule loop of _extract_from_block
RECURSIVE ExtractWithRules(_, _)
ExtractWithRules(rules, block) ==
    IF rules = <<>> THEN <<>>
    ELSE LET rule == Head(rules)
             rule_type == rule["rule_type"]
             text == block.normalized_text
             matches == IF rule_type = "keyword" THEN _match_keywords(rule, text)
                        ELSE IF rule_type = "phrase" THEN _match_phrases(rule, text)
                        ELSE IF rule_type = "structural" THEN _match_structural(rule, text)
                        ELSE <<>>
         IN  [m \in 1..Len(matches) |->
                ExtractionCandidate(rule["rule_id"], rule_type, matches[m].text,
                                    block.block_id, matches[m].position,
                                    matches[m].metadata)]
             \o ExtractWithRules(Tail(rules), block)

\* ExtractionService.extract
RECURSIVE extract(_, _)
extract(rules, text_blocks) ==
    IF text_blocks = <<>> THEN <<>>
    ELSE ExtractWithRules(rules, Head(text_blocks)) \o extract(rules, Tail(text_blocks))

---------------------------------------------------------------------------
(* Specification of the extraction stage: the service is constructed on a  *)
(* rules file, then extract is applied to the text blocks of an ingestion  *)

MaxRules == 2

\* rule entries of a rules file: well-formed ones of every kind, and entries
\* that lack a field or name an unknown kind
RulePool ==
    { [rule_id |-> "keyword_001", rule_type |-> "keyword", keywords |-> <<"LEASE", "re">>],
      [rule_id |-> "phrase_001", rule_type |-> "phrase",
       phrases |-> <<"automatically renew">>, case_sensitive |-> TRUE],
      [rule_id |-> "structural_001", rule_type |-> "structural", pattern |-> "date"],
      [rule_id |-> "structural_003", rule_type |-> "structural", pattern |-> "line_start",
       label_prefixes |-> <<"Section">>],
      [rule_type |-> "keyword", keywords |-> <<"lease">>],
      [rule_id |-> "keyword_009"],
      [rule_id |-> "regex_001", rule_type |-> "regex"],
      [rule_id |-> "keyword_010", rule_type |-> "keyword"],
      [rule_id |-> "phrase_010", rule_type |-> "phrase", keywords |-> <<"lease">>],
      [rule_id |-> "structural_010", rule_type |-> "structural", pattern |-> "section"] }

\* what the rules path holds: nothing, a file json.load cannot decode, a JSON
\* object without 'rules', or a JSON object with a 'rules' array
RulesFiles ==
    {<<>>, <<[decoded |-> FALSE]>>, <<[decoded |-> TRUE, data |-> [version |-> "v0"]]>>}
        \cup {<<[decoded |-> TRUE, data |-> [version |-> "v0", rules |-> rules]]>> :
                rules \in SeqsUpTo(RulePool, MaxRules)}

ExtractionTexts ==
    {"Section 1\nThis Lease shall automatically renew on 01/02/2024.",
     "lease"}

InitExtraction ==
    /\ pc = "construct"
    /\ rules_data \in RulesFiles
    /\ extraction_service = <<>>
    /\ extraction_candidates = <<>>
    /\ contract_text \in ExtractionTexts
    /\ ingestion_result = ingest(contract_text, 1)
    /\ IdleAnalysis /\ IdleTraps /\ IdleGateway /\ IdleExplain
    /\ IdleChains /\ IdleExplainV2 /\ IdleBuilder

\* ExtractionService(rules_path)
Construct ==
    /\ pc = "construct"
    /\ extraction_service' = _load_rules(rules_data)
    /\ pc' = "constructed"
    /\ UNCHANGED <<rules_data, extraction_candidates, ingestion_vars,
                   analysis_vars, trap_vars, gateway_vars, explain_vars,
                   chain_vars, explain_v2_vars, builder_vars>>

\* extraction_service.extract(ingestion_result.text_blocks)
Extract ==
    /\ pc = "constructed"
    /\ extraction_service.outcome = "return"
    /\ extraction_candidates' =
            extract(extraction_service.value.rules, ingestion_result.value.text_blocks)
    /\ pc' = "extracted"
    /\ UNCHANGED <<rules_data, extraction_service, ingestion_vars,
                   analysis_vars, trap_vars, gateway_vars, explain_vars,
                   chain_vars, explain_v2_vars, builder_vars>>

NextExtraction == Construct \/ Extract

SpecExtraction == InitExtraction /\ [][NextExtraction]_vars

---------------------------------------------------------------------------
(* Properties of the extraction stage *)

\* a rule entry that lacks rule_id or rule_type, names a kind other than
\* keyword, phrase and structural, or lacks the field its kind needs
Malformed(rule) ==
    \/ "rule_id" \notin DOMAIN rule
    \/ "rule_type" \notin DOMAIN rule
    \/ rule["rule_type"] \notin {"keyword", "phrase", "structural"}
    \/ rule["rule_type"] = "keyword" /\ "keywords" \notin DOMAIN rule
    \/ rule["rule_type"] = "phrase" /\ "phrases" \notin DOMAIN rule
    \/ /\ rule["rule_type"] = "structural"
       /\ ("pattern" \notin DOMAIN rule
            \/ rule["pattern"] \notin {"date", "currency", "line_start"})

\* the rules file decodes to an object with a 'rules' array
HasRuleTable ==
    /\ rules_data # <<>>
    /\ rules_data[1].decoded
    /\ "rules" \in DOMAIN rules_data[1].data

\* C26: constructing ExtractionService on a rule table with a malformed entry
\* raises, so no malformed rule reaches match time.
C26_MalformedRulesFailAtLoad ==
    (pc \in {"constructed", "extracted"} /\ HasRuleTable) =>
        LET rules == rules_data[1].data["rules"]
        IN  (\E i \in 1..Len(rules) : Malformed(rules[i]))
                => extraction_service.outcome = "raise"

---------------------------------------------------------------------------
(* End to end: run_gateway_json_output.py *)

\* build_explain_v2_input_from_contract, lines 41-46
has_auto_renewal(contract_lower) ==
    \E keyword \in {"automatically renew", "automatic renewal", "auto renew",
                    "shall automatically renew"} :
        Contains(keyword, contract_lower)

\* build_explain_v2_input_from_contract, lines 48-54
has_notice_period(contract_lower) ==
    \E keyword \in {"90 days", "30 days", "60 days", "notice of termination",
                    "written notice"} :
        Contains(keyword, contract_lower)

\* mutant: an auto-renewal clause alone already gives the high strength
determine_strength_HighOnAutoRenewal(auto_renewal, notice_period) ==
    IF auto_renewal THEN "high" ELSE "low"

\* build_explain_v2_input_from_contract, lines 56-62
determine_strength(auto_renewal, notice_period) ==
    IF auto_renewal /\ notice_period THEN "high"
    ELSE IF auto_renewal THEN "medium"
    ELSE "low"

\* build_explain_v2_input_from_contract, lines 64-78
deadline_text(contract_lower) ==
    IF Contains("90 days", contract_lower) THEN "<he><tong><dao><qi><qian>90<tian>"
    ELSE IF Contains("30 days", contract_lower) THEN "<he><tong><dao><qi><qian>30<tian>"
    ELSE IF Contains("60 days", contract_lower) THEN "<he><tong><dao><qi><qian>60<tian>"
    ELSE "<he><tong><dao><qi><qian>"

\* build_explain_v2_input_from_contract, lines 64-78: the same text on every branch
notice_text ==
    "<zai><xu><yue><chuang><kou><guan><bi><qian><ti><gong><shu><mian><zhong><zhi><tong><zhi>"

\* build_explain_v2_input_from_contract (the analysis_output argument is not read)
build_explain_v2_input_from_contract(text) ==
    LET contract_lower == lower(text)
        auto_renewal == has_auto_renewal(contract_lower)
        notice_period == has_notice_period(contract_lower)
    IN  ExplainV2Input("Temporal Lock-in",
            determine_strength(auto_renewal, notice_period),
            "counterparty", "partially_reversible",
            [signals |-> IF notice_period
                         THEN <<"AUTO_RENEWAL", "SHORT_NOTICE_WINDOW">>
                         ELSE <<"AUTO_RENEWAL">>,
             clause_references |-> IF notice_period
                                   THEN <<"<xu><yue><tiao><kuan>", "<tong><zhi><tiao><kuan>">>
                                   ELSE <<"<xu><yue><tiao><kuan>">>],
            [exists |-> TRUE, conditions |-> notice_text,
             deadline |-> deadline_text(contract_lower)])

\* mutant: the bare phrase 'automatically renew' is not among the keywords
has_temporal_signals_NoAutomaticallyRenew(contract_lower) ==
    \E keyword \in {"automatic renewal", "auto renew"} :
        Contains(keyword, contract_lower)

\* run_end_to_end, lines 144-148
has_temporal_signals(contract_lower) ==
    \E keyword \in {"automatically renew", "automatic renewal", "auto renew"} :
        Contains(keyword, contract_lower)

\* run_end_to_end, lines 109-119: the candidates as ExtractedSignals
SignalsOfCandidates(candidates) ==
    [idx \in 1..Len(candidates) |->
        ExtractedSignal(candidates[idx].rule_id, candidates[idx].rule_type,
                        candidates[idx].extracted_text, candidates[idx].block_id)]

\* the rule table ExtractionService() loads by default (rules/rules_v0.json):
\* rules under the ids the risk-mapping table knows, and one under an id it
\* does not know
default_rules ==
    << [rule_id |-> "keyword_001", rule_type |-> "keyword", keywords |-> <<"lease">>],
       [rule_id |-> "phrase_001", rule_type |-> "phrase",
        phrases |-> <<"automatically renew", "automatic renewal">>],
       [rule_id |-> "phrase_003", rule_type |-> "phrase", phrases |-> <<"written notice">>],
       [rule_id |-> "keyword_010", rule_type |-> "keyword", keywords |-> <<"maintenance">>] >>

---------------------------------------------------------------------------
(* Specification of run_end_to_end: one action per numbered step of the     *)
(* function, on contract texts put together from clause fragments           *)

MaxFragments == 2

\* clause fragments: the auto-renewal keywords in several letter cases, near
\* misses of them, notice-period wording, and clauses on other matters
ContractFragments ==
    {"shall automatically renew", "AUTOMATIC RENEWAL", "Auto Renew",
     "renews automatically", "automatically  renew",
     "within 90 days", "Written Notice", "45 days", "maintenance", "Lease"}

InitEndToEnd ==
    /\ pc = "ingestion"
    /\ \E fragments \in SeqsUpTo(ContractFragments, MaxFragments) :
            contract_text = Join(fragments, "\n")
    /\ ingestion_result = <<>>
    /\ rules_data = <<[decoded |-> TRUE,
                       data |-> [version |-> "v0", rules |-> default_rules]]>>
    /\ extraction_service = <<>>
    /\ extraction_candidates = <<>>
    /\ IdleAnalysis /\ IdleTraps /\ IdleGateway /\ IdleExplain
    /\ IdleChains /\ IdleExplainV2 /\ IdleBuilder

\* step 1: IngestionService().ingest(IngestionInput(text=contract_text)); a
\* ValueError leaves run_end_to_end
RunIngestion ==
    /\ pc = "ingestion"
    /\ \E utcnow \in Timestamps : ingestion_result' = ingest(contract_text, utcnow)
    /\ pc' = IF ingestion_result'.outcome = "raise" THEN "raised" ELSE "extraction"
    /\ UNCHANGED <<contract_text, extraction_vars, analysis_vars, trap_vars,
                   gateway_vars, explain_vars, chain_vars, explain_v2_vars,
                   builder_vars>>

\* step 2: ExtractionService().extract(...) and the conversion to ExtractedSignals
RunExtraction ==
    /\ pc = "extraction"
    /\ extraction_service' = _load_rules(rules_data)
    /\ extraction_candidates' =
            extract(extraction_service'.value.rules, ingestion_result.value.text_blocks)
    /\ extracted_signals' = SignalsOfCandidates(extraction_candidates')
    /\ pc' = "analysis"
    /\ UNCHANGED <<rules_data, analysis_output, ingestion_vars, trap_vars,
                   gateway_vars, explain_vars, chain_vars, explain_v2_vars,
                   builder_vars>>

\* step 3: AnalysisService().analyze(analysis_input)
RunAnalysis ==
    /\ pc = "analysis"
    /\ analysis_output' = analyze(extracted_signals)
    /\ pc' = "explain_v0"
    /\ UNCHANGED <<extracted_signals, ingestion_vars, extraction_vars, trap_vars,
                   gateway_vars, explain_vars, chain_vars, explain_v2_vars,
                   builder_vars>>

\* step 4: ExplainService().explain(analysis_output)
RunExplainV0 ==
    /\ pc = "explain_v0"
    /\ explain_v0_output' = <<explain(analysis_output)>>
    /\ pc' = "explain_v1"
    /\ UNCHANGED <<explain_v1_output, explain_v2_output, gateway_output,
                   ingestion_vars, extraction_vars, analysis_vars, trap_vars,
                   explain_vars, chain_vars, explain_v2_vars, builder_vars>>

\* step 5: ExplainV1Service().explain(analysis_output.risk_fields)
RunExplainV1 ==
    /\ pc = "explain_v1"
    /\ explain_v1_output' = <<explain_v1(analysis_output.risk_fields)>>
    /\ pc' = "explain_v2"
    /\ UNCHANGED <<explain_v0_output, explain_v2_output, gateway_output,
                   ingestion_vars, extraction_vars, analysis_vars, trap_vars,
                   explain_vars, chain_vars, explain_v2_vars, builder_vars>>

\* step 6: the v2 input is built from the contract text; ExplainV2Service is
\* called only on a text with temporal signals, and its ValueError is caught
RunExplainV2 ==
    /\ pc = "explain_v2"
    /\ input_data' = build_explain_v2_input_from_contract(contract_text)
    /\ explain_v2_result' =
            IF has_temporal_signals(lower(contract_text))
            THEN ExplainV2Service_explain(input_data')
            ELSE <<>>
    /\ explain_v2_output' =
            IF explain_v2_result' # <<>> /\ explain_v2_result'.outcome = "return"
            THEN <<explain_v2_result'.value>>
            ELSE <<>>
    /\ pc' = "gateway"
    /\ UNCHANGED <<explain_v0_output, explain_v1_output, gateway_output,
                   ingestion_vars, extraction_vars, analysis_vars, trap_vars,
                   explain_vars, chain_vars, builder_vars>>

\* step 7: ExplainGateway().aggregate(...), the value run_end_to_end returns
RunGateway ==
    /\ pc = "gateway"
    /\ gateway_output' = aggregate(explain_v0_output, explain_v1_output, explain_v2_output)
    /\ pc' = "returned"
    /\ UNCHANGED <<explain_v0_output, explain_v1_output, explain_v2_output,
                   ingestion_vars, extraction_vars, analysis_vars, trap_vars,
                   explain_vars, chain_vars, explain_v2_vars, builder_vars>>

NextEndToEnd ==
    \/ RunIngestion
    \/ RunExtraction
    \/ RunAnalysis
    \/ RunExplainV0
    \/ RunExplainV1
    \/ RunExplainV2
    \/ RunGateway

SpecEndToEnd == InitEndToEnd /\ [][NextEndToEnd]_vars

---------------------------------------------------------------------------
(* Properties of run_end_to_end *)

\* the contract text has the wording of the end-to-end scenario
ShallRenewWithNinetyDays ==
    /\ Contains("shall automatically renew", contract_text)
    /\ Contains("90 days", contract_text)

\* C27: for a contract text containing 'shall automatically renew' and
\* '90 days', run_end_to_end does not raise, and the GatewayOutput it returns
\* has the v2 tier in its details, with a non-empty headline and a
\* lock_in_dynamics block, and an attention_level of 'medium' or 'high'.
C27_ScenarioYieldsV2AndAttention ==
    ShallRenewWithNinetyDays =>
        /\ pc # "raised"
        /\ pc = "returned" =>
            /\ "v2" \in DOMAIN gateway_output.details
            /\ gateway_output.details["v2"].headline # ""
            /\ "lock_in_dynamics" \in DOMAIN gateway_output.details["v2"]
            /\ gateway_output.details["v2"]["lock_in_dynamics"].description # ""
            /\ gateway_output.overview.attention_level \in {"medium", "high"}

C27_Witness ==
    /\ pc = "returned"
    /\ ShallRenewWithNinetyDays
    /\ "v2" \in DOMAIN gateway_output.details
    /\ gateway_output.overview.attention_level = "high"

\* the fragments that hold an auto-renewal keyword, in whatever letter case
AutoRenewalFragments ==
    {"shall automatically renew", "AUTOMATIC RENEWAL", "Auto Renew"}

\* the fragments that hold a notice-period keyword, in whatever letter case
NoticePeriodFragments == {"within 90 days", "Written Notice"}

HoldsOneOf(fragments) == \E fragment \in fragments : Contains(fragment, contract_text)

\* C29: run_end_to_end hands a v2 explanation to the gateway exactly when the
\* contract text holds an auto-renewal keyword; the strength it was built on
\* is then 'high' if the text also holds a notice-period keyword and 'medium'
\* otherwise, and a returned GatewayOutput with a v2 entry in its details
\* never has attention_level 'low'.
C29_V2PassedIffAutoRenewalKeyword ==
    /\ pc \in {"gateway", "returned"} =>
        /\ Present(explain_v2_output) <=> HoldsOneOf(AutoRenewalFragments)
        /\ Present(explain_v2_output) =>
            /\ input_data.strength =
                    IF HoldsOneOf(NoticePeriodFragments) THEN "high" ELSE "medium"
            /\ explain_v2_output[1].confidence_level = input_data.strength
    /\ pc = "returned" =>
        /\ "v2" \in DOMAIN gateway_output.details <=> HoldsOneOf(AutoRenewalFragments)
        /\ "v2" \in DOMAIN gateway_output.details =>
                gateway_output.overview.attention_level # "low"

C29_Witness ==
    /\ pc = "returned"
    /\ HoldsOneOf(AutoRenewalFragments)
    /\ ~HoldsOneOf(NoticePeriodFragments)
    /\ "v2" \in DOMAIN gateway_output.details
    /\ gateway_output.overview.attention_level = "medium"

---------------------------------------------------------------------------
(* The attention level against the levels of all supplied tiers *)

\* the levels the supplied tiers carry: the v2 confidence_level, the v1
\* intensities and the v0 severities
SuppliedLevels ==
    (IF Present(explain_v2_output) THEN {explain_v2_output[1].confidence_level} ELSE {})
    \cup {V1Explanations[i].intensity : i \in 1..Len(V1Explanations)}
    \cup {V0Blocks[i].severity : i \in 1..Len(V0Blocks)}

\* the levels of the tier that decides the attention level: v2 if supplied,
\* else v1 if it has explanations, else v0
DecidingLevels ==
    IF Present(explain_v2_output) THEN {explain_v2_output[1].confidence_level}
    ELSE IF V1Explanations # <<>>
    THEN {V1Explanations[i].intensity : i \in 1..Len(V1Explanations)}
    ELSE {V0Blocks[i].severity : i \in 1..Len(V0Blocks)}

---------------------------------------------------------------------------
(* Specification of the pipeline with the v0 tier only: analyze, then       *)
(* explain, then aggregate on the v0 explanation alone                      *)

InitPipeline ==
    /\ pc = "pipeline_analyze"
    /\ extracted_signals \in SeqsUpTo(SignalPool, MaxSignals)
    /\ analysis_output = NoAnalysisOutput
    /\ IdleTraps /\ IdleGateway /\ IdleExplain
    /\ IdleChains /\ IdleExplainV2 /\ IdleBuilder
    /\ IdleIngestion /\ IdleExtraction

\* AnalysisService.analyze(AnalysisInput(extracted_signals=...))
PipelineAnalyze ==
    /\ pc = "pipeline_analyze"
    /\ analysis_output' = analyze(extracted_signals)
    /\ pc' = "pipeline_explain"
    /\ UNCHANGED <<extracted_signals, trap_vars, gateway_vars, explain_vars,
                   chain_vars, explain_v2_vars, builder_vars,
                   ingestion_vars, extraction_vars>>

\* ExplainService.explain(analysis_output)
PipelineExplain ==
    /\ pc = "pipeline_explain"
    /\ explain_v0_output' = <<explain(analysis_output)>>
    /\ pc' = "pipeline_aggregate"
    /\ UNCHANGED <<explain_v1_output, explain_v2_output, gateway_output,
                   analysis_vars, trap_vars, explain_vars,
                   chain_vars, explain_v2_vars, builder_vars,
                   ingestion_vars, extraction_vars>>

\* ExplainGateway.aggregate(explain_v0_output=..., None, None)
PipelineAggregate ==
    /\ pc = "pipeline_aggregate"
    /\ gateway_output' = aggregate(explain_v0_output, explain_v1_output, explain_v2_output)
    /\ pc' = "pipeline_done"
    /\ UNCHANGED <<explain_v0_output, explain_v1_output, explain_v2_output,
                   analysis_vars, trap_vars, explain_vars,
                   chain_vars, explain_v2_vars, builder_vars,
                   ingestion_vars, extraction_vars>>

NextPipeline == PipelineAnalyze \/ PipelineExplain \/ PipelineAggregate

SpecPipeline == InitPipeline /\ [][NextPipeline]_vars

---------------------------------------------------------------------------
(* Properties of the pipeline with the v0 tier only *)

\* C30: with only the v0 tier supplied, the attention level of the gateway is
\* 'high' when a triggered risk code has the mapped severity high, and
\* 'medium' when the highest mapped severity among the triggered codes is
\* medium.
C30_AttentionReflectsMappedSeverity ==
    pc = "pipeline_done" =>
        /\ "high" \in TriggeredSeverities(extracted_signals)
                => gateway_output.overview.attention_level = "high"
        /\ ("medium" \in TriggeredSeverities(extracted_signals)
                /\ "high" \notin TriggeredSeverities(extracted_signals))
                => gateway_output.overview.attention_level = "medium"

====
